---- MODULE Spec2Model ----
(***************************************************************************)
(* Model of the sudo-di-cloud-agent example application: the React flow    *)
(* components of the frontend (connection, credential and presentation     *)
(* sections, sequenced by the example-flow components), their poll loops,  *)
(* and the query functions of the backend's CloudAgent wrapper.            *)
(*                                                                         *)
(* React semantics used throughout: a handler's setState calls are applied *)
(* together, and the useEffect hooks whose dependencies changed run before *)
(* the next event is handled, so an action is the handler plus the effects *)
(* it triggers.  An async function runs synchronously up to its first      *)
(* await, so starting a poll loop issues its first query at once.          *)
(***************************************************************************)
EXTENDS Integers, Sequences, FiniteSets, TLC

\* ------------------------------------------------------------------------
\* Bounds of the model (not program constants)
\* ------------------------------------------------------------------------

\* largest number of exchange records the Agent Service lists for one
\* connection in answer to a records query
MaxCandidates == 2

\* ------------------------------------------------------------------------
\* Vocabulary
\* ------------------------------------------------------------------------

Absent == "absent"      \* JavaScript undefined / a missing field
Error == [ok |-> FALSE] \* a thrown Error / a rejected promise

Variants == {"anoncreds", "w3cIssue", "w3cHold"}
InviterVariants == {"anoncreds", "w3cIssue"}

\* what the user can type into a text field: nothing, or some text
Texts == {"", "a"}

ConnIds == {"c1", "c2"}
\* the Agent makes a new connection record, with an id of its own, for every
\* invitation it creates or receives: the id it gives to the one that the
\* n-th such command of a flow asks for
NewConnId(n) == IF n <= 1 THEN "c1" ELSE "c2"
CredExIds == {"e1"}
PresExIds == {"p1"}

ConnStates == {"invitation", "request", "response", "active"}

CredStates(v) ==
  IF v = "anoncreds"
    THEN {"offer_sent", "request_received", "credential_issued", "credential_acked"}
    ELSE IF v = "w3cIssue"
      THEN {"offer-sent", "request-received", "credential-issued", "done"}
      ELSE {"offer-received", "request-sent", "credential-received", "done"}

PresStates(v) ==
  IF v = "anoncreds"
    THEN {"request_sent", "presentation_received", "verified"}
    ELSE IF v = "w3cIssue"
      THEN {"request-sent", "presentation-received", "done"}
      ELSE {"request-received", "presentation-sent", "done"}

\* ------------------------------------------------------------------------
\* Backend: CloudAgent query functions, as functions of the id passed in and
\* of the record the Agent Service SDK call returns (result).  A result with
\* ok = FALSE is an SDK call that throws.
\* ------------------------------------------------------------------------

SdkConnResults == {Error} \cup [ok : {TRUE}, state : ConnStates \cup {Absent}]

getConnectionState(connectionId, result) ==
  IF connectionId = "" THEN Error
  ELSE IF ~result.ok THEN Error
  ELSE IF result.state = Absent THEN Error
  ELSE [ok |-> TRUE, connectionId |-> connectionId, state |-> result.state]

SdkCredResults(v) ==
  {Error} \cup [ok : {TRUE}, state : CredStates(v) \cup {Absent},
                cred_id_stored : {Absent, "cred1"}]

getAnoncredsCredentialExchangeState(credentialExchangeId, result) ==
  IF credentialExchangeId = "" THEN Error
  ELSE IF ~result.ok THEN Error
  ELSE IF result.state = Absent THEN Error
  ELSE [ok |-> TRUE, credentialExchangeId |-> credentialExchangeId,
        state |-> result.state, credentialId |-> Absent]

getW3cCredentialExchangeState(credentialExchangeId, result) ==
  IF credentialExchangeId = "" THEN Error
  ELSE IF ~result.ok THEN Error
  ELSE IF result.state = Absent THEN Error
  ELSE [ok |-> TRUE, credentialExchangeId |-> credentialExchangeId,
        state |-> result.state, credentialId |-> result.cred_id_stored]

\* one listed credential exchange record: its id and the credentialSubject
\* of the offer it carries
OfferRecords ==
  [cred_ex_id : CredExIds, givenName : {Absent, "a"}, familyName : {Absent, "a"}]

RECURSIVE SeqsUpTo(_, _)
SeqsUpTo(S, n) ==
  IF n = 0 THEN {<<>>}
  ELSE LET shorter == SeqsUpTo(S, n - 1)
       IN shorter \cup {Append(q, x) : q \in {r \in shorter : Len(r) = n - 1}, x \in S}

SdkOfferResults ==
  {Error} \cup [ok : {TRUE}, results : SeqsUpTo(OfferRecords, MaxCandidates)]

\* credentialData of an answer: undefined, or the two attribute values
NoData == [defined |-> FALSE]
EmptyOffer == [ok |-> TRUE, credentialExchangeId |-> Absent, credentialData |-> NoData]

\* getW3cCredentialOffer as it would be if it took the first of several results
getW3cCredentialOfferFirstOfMany(connectionId, result) ==
  IF connectionId = "" THEN Error
  ELSE IF ~result.ok THEN Error
  ELSE IF Len(result.results) = 0 THEN EmptyOffer
  ELSE LET credentialExchange == result.results[1]
       IN IF credentialExchange.givenName = Absent
             \/ credentialExchange.familyName = Absent
            THEN Error
            ELSE [ok |-> TRUE,
                  credentialExchangeId |-> credentialExchange.cred_ex_id,
                  credentialData |-> [defined |-> TRUE,
                                      givenName |-> credentialExchange.givenName,
                                      familyName |-> credentialExchange.familyName]]

getW3cCredentialOffer(connectionId, result) ==
  IF connectionId = "" THEN Error
  ELSE IF ~result.ok THEN Error
  ELSE IF Len(result.results) # 1 THEN EmptyOffer
  ELSE LET credentialExchange == result.results[1]
       IN IF credentialExchange.givenName = Absent
             \/ credentialExchange.familyName = Absent
            THEN Error
            ELSE [ok |-> TRUE,
                  credentialExchangeId |-> credentialExchange.cred_ex_id,
                  credentialData |-> [defined |-> TRUE,
                                      givenName |-> credentialExchange.givenName,
                                      familyName |-> credentialExchange.familyName]]

RequestRecords == [pres_ex_id : PresExIds]

SdkRequestResults ==
  {Error} \cup [ok : {TRUE}, results : SeqsUpTo(RequestRecords, MaxCandidates)]

EmptyRequest == [ok |-> TRUE, presentationExchangeId |-> Absent]

\* getW3cProofRequest as it would be if it threw when there is no result
getW3cProofRequestThrowsOnNone(connectionId, result) ==
  IF connectionId = "" THEN Error
  ELSE IF ~result.ok THEN Error
  ELSE IF Len(result.results) = 0 THEN Error
  ELSE IF Len(result.results) # 1 THEN EmptyRequest
  ELSE [ok |-> TRUE, presentationExchangeId |-> result.results[1].pres_ex_id]

\* getW3cProofRequest as it would be if it took the first of several results
getW3cProofRequestFirstOfMany(connectionId, result) ==
  IF connectionId = "" THEN Error
  ELSE IF ~result.ok THEN Error
  ELSE IF Len(result.results) = 0 THEN EmptyRequest
  ELSE [ok |-> TRUE, presentationExchangeId |-> result.results[1].pres_ex_id]

getW3cProofRequest(connectionId, result) ==
  IF connectionId = "" THEN Error
  ELSE IF ~result.ok THEN Error
  ELSE IF Len(result.results) # 1 THEN EmptyRequest
  ELSE [ok |-> TRUE, presentationExchangeId |-> result.results[1].pres_ex_id]

\* a presentation exchange record: state, the verified field ("true",
\* "false" or not set) and the attribute values of the received presentation
SdkPresResults(v) ==
  {Error} \cup [ok : {TRUE}, state : PresStates(v) \cup {Absent},
                verified : {Absent, "true", "false"},
                attr1 : {Absent, "a"}, attr2 : {Absent, "a"}]

getAnoncredsProofPresentationExchangeState(presentationExchangeId, result) ==
  IF presentationExchangeId = "" THEN Error
  ELSE IF ~result.ok THEN Error
  ELSE IF result.state = Absent THEN Error
  ELSE [ok |-> TRUE, presentationExchangeId |-> presentationExchangeId,
        state |-> result.state,
        revealedAttributes |-> [attr1 |-> result.attr1, attr2 |-> result.attr2],
        verified |-> (result.verified = "true")]

\* getW3cProofPresentationExchangeState as it would be if verified did not
\* look at the state
getW3cProofPresentationExchangeStateAnyState(presentationExchangeId, result) ==
  IF presentationExchangeId = "" THEN Error
  ELSE IF ~result.ok THEN Error
  ELSE IF result.state = Absent THEN Error
  ELSE [ok |-> TRUE, presentationExchangeId |-> presentationExchangeId,
        state |-> result.state,
        revealedAttributes |->
          IF result.state \in {"presentation-received", "done"}
            THEN [attr1 |-> result.attr1, attr2 |-> result.attr2]
            ELSE [attr1 |-> Absent, attr2 |-> Absent],
        verified |-> (result.verified = "true")]

\* getW3cProofPresentationExchangeState as it would be if the revealed
\* attributes did not look at the state
getW3cProofPresentationExchangeStateAnyAttributes(presentationExchangeId, result) ==
  IF presentationExchangeId = "" THEN Error
  ELSE IF ~result.ok THEN Error
  ELSE IF result.state = Absent THEN Error
  ELSE [ok |-> TRUE, presentationExchangeId |-> presentationExchangeId,
        state |-> result.state,
        revealedAttributes |-> [attr1 |-> result.attr1, attr2 |-> result.attr2],
        verified |-> (result.state = "done" /\ result.verified = "true")]

getW3cProofPresentationExchangeState(presentationExchangeId, result) ==
  IF presentationExchangeId = "" THEN Error
  ELSE IF ~result.ok THEN Error
  ELSE IF result.state = Absent THEN Error
  ELSE [ok |-> TRUE, presentationExchangeId |-> presentationExchangeId,
        state |-> result.state,
        revealedAttributes |->
          IF result.state \in {"presentation-received", "done"}
            THEN [attr1 |-> result.attr1, attr2 |-> result.attr2]
            ELSE [attr1 |-> Absent, attr2 |-> Absent],
        verified |-> (result.state = "done" /\ result.verified = "true")]

\* ------------------------------------------------------------------------
\* Backend: connection commands
\* ------------------------------------------------------------------------

SdkInvitationResults(ids) ==
  {Error} \cup [ok : {TRUE}, connection_id : ids \cup {Absent},
                invitation_url : {Absent, "url1"}]

\* What a function asks of the Agent: no request, or the request it sends.
NoRequest == [sent |-> FALSE]

\* the request body of POST /connection-invitation, read by the route
BodyAliases == Texts \cup {Absent}
RouteConnectionAlias(bodyAlias) == IF bodyAlias = Absent THEN "" ELSE bodyAlias

createConnectionInvitationRequest(connectionAlias) ==
  [sent |-> TRUE, alias |-> connectionAlias]

\* createConnectionInvitation as it would be without its check of the result
createConnectionInvitationUnchecked(connectionAlias, result) ==
  IF ~result.ok THEN Error
  ELSE [ok |-> TRUE,
        connectionId |-> IF result.connection_id = Absent THEN ""
                         ELSE result.connection_id,
        invitationUrl |-> IF result.invitation_url = Absent THEN ""
                          ELSE result.invitation_url]

createConnectionInvitation(connectionAlias, result) ==
  IF ~result.ok THEN Error
  ELSE IF result.connection_id = Absent \/ result.invitation_url = Absent THEN Error
  ELSE [ok |-> TRUE, connectionId |-> result.connection_id,
        invitationUrl |-> result.invitation_url]

SdkReceiveInvitationResults(ids) ==
  {Error} \cup [ok : {TRUE}, connection_id : ids \cup {Absent}]

\* decodes: whether the text after "c_i=" base64-decodes to parseable JSON
acceptConnectionInvitationRequest(connectionAlias, url, decodes) ==
  IF ~decodes THEN NoRequest ELSE [sent |-> TRUE, alias |-> connectionAlias]

\* acceptConnectionInvitation as it would be if it passed on what it cannot decode
acceptConnectionInvitationUndecoded(connectionAlias, url, decodes, result) ==
  IF ~result.ok THEN Error
  ELSE IF result.connection_id = Absent THEN Error
  ELSE [ok |-> TRUE, connectionId |-> result.connection_id]

acceptConnectionInvitation(connectionAlias, url, decodes, result) ==
  IF ~decodes THEN Error
  ELSE IF ~result.ok THEN Error
  ELSE IF result.connection_id = Absent THEN Error
  ELSE [ok |-> TRUE, connectionId |-> result.connection_id]

\* ------------------------------------------------------------------------
\* Backend: publication, credential and presentation commands
\* ------------------------------------------------------------------------

\* an SDK call that answers with one id field
SdkIdResults(ids) == {Error} \cup [ok : {TRUE}, id : ids \cup {Absent}]

SchemaIds == {"s1"}
CredDefIds == {"d1"}
Dids == {"did1"}

\* publishAnoncredsSchema as it would be without its check of the id returned
publishAnoncredsSchemaUnchecked(result) ==
  IF ~result.ok THEN Error
  ELSE [ok |-> TRUE, schemaId |-> result.id]

publishAnoncredsSchema(result) ==
  IF ~result.ok THEN Error
  ELSE IF result.id = Absent THEN Error
  ELSE [ok |-> TRUE, schemaId |-> result.id]

publishAnoncredsCredDef(schemaId, result) ==
  IF schemaId = "" THEN Error
  ELSE IF ~result.ok THEN Error
  ELSE IF result.id = Absent THEN Error
  ELSE [ok |-> TRUE, credDefId |-> result.id]

\* the body of credentialDefinitionsPost, if publishAnoncredsCredDef gets as
\* far as calling it
publishAnoncredsCredDefRequest(schemaId) ==
  IF schemaId = "" THEN NoRequest
  ELSE [sent |-> TRUE, schema_id |-> schemaId]

sendAnoncredsCredentialOfferRequest(connectionId, credDefId) ==
  IF connectionId = "" \/ credDefId = "" THEN NoRequest
  ELSE [sent |-> TRUE, connection_id |-> connectionId, cred_def_id |-> credDefId]

\* sendAnoncredsCredentialOffer as it would be if it checked the connection id only
sendAnoncredsCredentialOfferConnectionOnly(connectionId, credDefId, result) ==
  IF connectionId = "" THEN Error
  ELSE IF ~result.ok THEN Error
  ELSE IF result.id = Absent THEN Error
  ELSE [ok |-> TRUE, credentialExchangeId |-> result.id, issuerDid |-> ""]

sendAnoncredsCredentialOffer(connectionId, credDefId, result) ==
  IF connectionId = "" THEN Error
  ELSE IF credDefId = "" THEN Error
  ELSE IF ~result.ok THEN Error
  ELSE IF result.id = Absent THEN Error
  ELSE [ok |-> TRUE, credentialExchangeId |-> result.id, issuerDid |-> ""]

\* didResult: the answer of the wallet's public-DID query
sendW3cCredentialOffer(connectionId, didResult, result) ==
  IF connectionId = "" THEN Error
  ELSE IF ~didResult.ok THEN Error
  ELSE IF didResult.id = Absent THEN Error
  ELSE IF ~result.ok THEN Error
  ELSE IF result.id = Absent THEN Error
  ELSE [ok |-> TRUE, credentialExchangeId |-> result.id, issuerDid |-> didResult.id]

\* didResult: the answer of the wallet's create-DID command;
\* result.ok = FALSE also stands for an answer carrying error_msg
postW3cCredentialRequest(credentialExchangeId, didResult, result) ==
  IF credentialExchangeId = "" THEN Error
  ELSE IF ~didResult.ok THEN Error
  ELSE IF didResult.id = Absent THEN Error
  ELSE IF ~result.ok THEN Error
  ELSE [ok |-> TRUE, holderDid |-> didResult.id]

sendAnoncredsProofRequest(connectionId, credDefId, result) ==
  IF connectionId = "" THEN Error
  ELSE IF credDefId = "" THEN Error
  ELSE IF ~result.ok THEN Error
  ELSE IF result.id = Absent THEN Error
  ELSE [ok |-> TRUE, presentationExchangeId |-> result.id]

sendW3cProofRequest(connectionId, issuerDid, result) ==
  IF connectionId = "" THEN Error
  ELSE IF ~result.ok THEN Error
  ELSE IF result.id = Absent THEN Error
  ELSE [ok |-> TRUE, presentationExchangeId |-> result.id]

SdkSendPresentationResults ==
  {Error} \cup [ok : {TRUE}, state : {Absent, "presentation-sent"}]

CredentialIds == {"cred1"}

sendW3cProofPresentationRequest(presentationExchangeId, credentialId) ==
  IF presentationExchangeId = "" THEN NoRequest
  ELSE [sent |-> TRUE, pres_ex_id |-> presentationExchangeId,
        record_ids |-> <<credentialId>>]

sendW3cProofPresentation(presentationExchangeId, credentialId, result) ==
  IF presentationExchangeId = "" THEN Error
  ELSE IF ~result.ok THEN Error
  ELSE [ok |-> TRUE, presentationExchangeId |-> presentationExchangeId,
        state |-> IF result.state = Absent THEN "" ELSE result.state]

\* the DIDs the wallet can create for a holder; each create-DID command
\* generates a new key, so it answers with a DID not created before
HolderDids == {"h1", "h2", "h3"}

\* the create-DID command of postW3cCredentialRequest: whether it is sent
postW3cCredentialRequestCreatesDid(credentialExchangeId) ==
  credentialExchangeId # ""

postW3cCredentialRequestSharedDid(credentialExchangeId, didResult) ==
  IF credentialExchangeId = "" THEN NoRequest
  ELSE IF ~didResult.ok THEN NoRequest
  ELSE IF didResult.id = Absent THEN NoRequest
  ELSE [sent |-> TRUE, credExId |-> credentialExchangeId, holder_did |-> "h1"]

\* the send-request command as it would be if it did not wait for the DID
postW3cCredentialRequestRequestWithoutDid(credentialExchangeId, didResult) ==
  IF credentialExchangeId = "" THEN NoRequest
  ELSE [sent |-> TRUE, credExId |-> credentialExchangeId,
        holder_did |-> IF didResult.ok THEN didResult.id ELSE Absent]

\* the send-request command of postW3cCredentialRequest: whether it is sent,
\* and the holder_did of its body
postW3cCredentialRequestRequest(credentialExchangeId, didResult) ==
  IF credentialExchangeId = "" THEN NoRequest
  ELSE IF ~didResult.ok THEN NoRequest
  ELSE IF didResult.id = Absent THEN NoRequest
  ELSE [sent |-> TRUE, credExId |-> credentialExchangeId,
        holder_did |-> didResult.id]

\* ------------------------------------------------------------------------
\* Backend start-up (server.ts) and its route handlers (router.ts)
\* ------------------------------------------------------------------------

\* the ledger's answer about the TAA: result.defined = FALSE stands for an
\* answer without a result, taa_accepted for a taa_accepted object present
TaaInfos ==
  {[defined |-> FALSE]}
    \cup [defined : {TRUE}, taa_required : BOOLEAN, taa_accepted : BOOLEAN]
SdkTaaResults == {Error} \cup [ok : {TRUE}, result : TaaInfos]

\* no answer of ledgerTaaGet yet
NoTaaAnswer == [ok |-> FALSE, asked |-> FALSE]

\* acceptLedgerTaa resumed with the answer to the SDK call it awaits: at
\* "starting" the first ledgerTaaGet, at "accepting" ledgerTaaAcceptPost, at
\* "confirming" the second ledgerTaaGet. It throws, returns, or goes on to
\* await its next call
\* acceptLedgerTaa as it would be if it returned once the TAA is accepted,
\* without asking the ledger again
acceptLedgerTaaUnconfirmed(at, result) ==
  IF ~result.ok THEN "throws"
  ELSE IF at = "accepting" THEN "returns"
  ELSE IF ~result.result.defined THEN "throws"
  ELSE IF at = "confirming"
         THEN (IF result.result.taa_accepted THEN "returns" ELSE "throws")
  ELSE IF ~result.result.taa_required THEN "returns"
  ELSE IF result.result.taa_accepted THEN "returns"
  ELSE "accepting"

acceptLedgerTaa(at, result) ==
  IF ~result.ok THEN "throws"
  ELSE IF at = "accepting" THEN "confirming"
  ELSE IF ~result.result.defined THEN "throws"
  ELSE IF at = "confirming"
         THEN (IF result.result.taa_accepted THEN "returns" ELSE "throws")
  ELSE IF ~result.result.taa_required THEN "returns"
  ELSE IF result.result.taa_accepted THEN "returns"
  ELSE "accepting"

ServerAfterTaaIgnoringFailure(outcome) ==
  IF outcome \in {"returns", "throws"} THEN "listening" ELSE outcome

\* server.ts awaits acceptLedgerTaa at the top level of the module: when it
\* returns, the router is installed and app.listen is called; when it throws,
\* the module's evaluation fails and the process ends
ServerAfterTaa(outcome) ==
  IF outcome = "returns" THEN "listening"
  ELSE IF outcome = "throws" THEN "exited"
  ELSE outcome

\* a route handler is an async function without try/catch, and Express 4 does
\* not look at the promise it returns. When the cloudAgent call rejects, no
\* response is sent and the rejection is unhandled: Node ends the process
\* (its default mode since version 15) or only warns (mode "warn")
ServerAfterRoute(phase, response) ==
  IF response.ok THEN {phase} ELSE {phase, "exited"}

\* ------------------------------------------------------------------------
\* Frontend state: one flow instance of the variant the route selects
\* ------------------------------------------------------------------------

VARIABLES
  variant,                 \* the example flow the App component renders
  \* "Establish Connection" section and the flow's connection details
  connectionStep, connectionAlias, connectionId, connectionState,
  invitationUrl, connPoll,
  \* "Prepare to Issue Credentials" section (AnonCreds flow only)
  publishStep, schemaId, credDefId,
  \* "Issue Credential" section (issuer) / "Accept Credential Offer" (holder)
  issueStep, acceptOfferStep, issueAttribute1, issueAttribute2,
  credentialExchangeId, credentialExchangeState, issuerDid, credentialId,
  holderDid, offerPoll, credPoll,
  \* "Verify Credential" section (verifier) / "Present Credential" (holder)
  verifyStep, presentStep, presentationExchangeId, presentationExchangeState,
  verifyPresentationStatus, verifyAttribute1, verifyAttribute2,
  requestPoll, presPoll,
  \* requests to the backend: POST commands awaiting their response, the
  \* POSTs sent so far (in order) and the GET queries sent so far
  pending, posts, gets,
  \* whether the flow component is still mounted (the route still shows it)
  mounted,
  \* the backend serving any HTTP client: the request it served last
  call,
  \* the backend process: where server.ts is (phase) and how its call of
  \* acceptLedgerTaa ended (taa)
  server,
  \* the Agent's wallet: the holder DIDs it has created, and the holder DIDs
  \* submitted in credential requests so far (in order)
  wallet

connVars == <<connectionStep, connectionAlias, connectionId, connectionState,
              invitationUrl, connPoll>>
pubVars == <<publishStep, schemaId, credDefId>>
credDataVars == <<issueAttribute1, issueAttribute2, credentialExchangeId,
                  credentialExchangeState, issuerDid, credentialId, holderDid>>
credVars == <<issueStep, acceptOfferStep, credDataVars, offerPoll, credPoll>>
presDataVars == <<presentationExchangeId, presentationExchangeState,
                  verifyPresentationStatus, verifyAttribute1, verifyAttribute2>>
presVars == <<verifyStep, presentStep, presDataVars, requestPoll, presPoll>>
flowVars == <<variant, connVars, pubVars, credVars, presVars, pending, posts, gets>>
backendVars == <<call, server, wallet>>
vars == <<flowVars, mounted, backendVars>>

\* the local variables of one run of an async poll function: where it is
\* (pc), the id its closure captured, its loop flag and its responseData;
\* with them, the Agent's answer that the backend built the last response
\* from (result), and pc = "aborted" once an awaited query has rejected
NoResponse == [ok |-> FALSE, state |-> Absent, verified |-> FALSE]
NoResult == [ok |-> FALSE, none |-> TRUE]
\* runs counts the calls of the poll function made so far
IdlePoll ==
  [pc |-> "idle", id |-> "", flag |-> FALSE, isVerified |-> FALSE,
   responseData |-> NoResponse, result |-> NoResult, runs |-> 0]
StartPoll(id) ==
  [pc |-> "await", id |-> id, flag |-> FALSE, isVerified |-> FALSE,
   responseData |-> NoResponse, result |-> NoResult, runs |-> 1]

\* the poll function is called (again): its variables start afresh
Restart(poll, id) == [StartPoll(id) EXCEPT !.runs = poll.runs + 1]

\* a setter of useState: the new value shows from the next render on, and a
\* call on a component that is no longer mounted is ignored
SetStateWhenUnmounted(old, new) == new
SetState(old, new) == IF mounted THEN new ELSE old

NoCall == [fn |-> "none"]
EmptyWallet == [created |-> {}, submitted |-> <<>>]

\* x ?? ''
OrEmpty(x) == IF x = Absent THEN "" ELSE x

Get(kind, id) == [kind |-> kind, id |-> id]

\* how many commands of a kind the flow instance has sent
Sent(kind) == Cardinality({i \in 1..Len(posts) : posts[i].kind = kind})

\* a poll function sent a query in the step that took its variables from
\* poll to pollN
SendsQuery(poll, pollN) == pollN # poll /\ pollN.pc \in {"await", "await2"}

InitFlow ==
  /\ variant \in Variants
  /\ connectionStep = "SetConnectionAlias"
  /\ connectionAlias = "" /\ connectionId = "" /\ connectionState = ""
  /\ invitationUrl = "" /\ connPoll = IdlePoll
  /\ publishStep = "PublishSchema" /\ schemaId = "" /\ credDefId = ""
  /\ issueStep = "StandbyUntilReadyToIssue"
  /\ acceptOfferStep = "StandbyUntilReadyToReceive"
  /\ issueAttribute1 = "" /\ issueAttribute2 = ""
  /\ credentialExchangeId = "" /\ credentialExchangeState = ""
  /\ issuerDid = "" /\ credentialId = "" /\ holderDid = ""
  /\ offerPoll = IdlePoll /\ credPoll = IdlePoll
  /\ verifyStep = "StandbyUntilReadyToVerify"
  /\ presentStep = "StandbyUntilReadyToReceive"
  /\ presentationExchangeId = "" /\ presentationExchangeState = ""
  /\ verifyPresentationStatus = ""
  /\ verifyAttribute1 = "" /\ verifyAttribute2 = ""
  /\ requestPoll = IdlePoll /\ presPoll = IdlePoll
  /\ pending = {} /\ posts = <<>> /\ gets = {}
  /\ mounted = TRUE
  /\ call = NoCall
  /\ wallet = EmptyWallet

\* the frontend is used with the backend started and listening
Init == InitFlow /\ server = [phase |-> "listening", taa |-> "returns"]

\* ------------------------------------------------------------------------
\* Flow components (the coordinators): their two useEffect hooks
\* ------------------------------------------------------------------------

\* First effect of the issue-and-verify flows: runs when one of its
\* dependencies changed; yields the issue step after it.
IssuerReadyToIssueEitherDone(v, cStep, pStep) ==
  cStep = "Done" \/ (v = "anoncreds" /\ pStep = "Done")
IssuerReadyToIssue(v, cStep, pStep) ==
  IF v = "anoncreds" THEN cStep = "Done" /\ pStep = "Done" ELSE cStep = "Done"

\* the first effect as it would be without its condition on the steps
IssueStepAfterUnguarded(v, cOld, pOld, cNew, pNew, cur) ==
  LET depsChanged == IF v = "anoncreds" THEN cOld # cNew \/ pOld # pNew
                                        ELSE cOld # cNew
  IN IF depsChanged THEN "SetCredentialData" ELSE cur

IssueStepAfter(v, cOld, pOld, cNew, pNew, cur) ==
  LET depsChanged == IF v = "anoncreds" THEN cOld # cNew \/ pOld # pNew
                                        ELSE cOld # cNew
  IN IF depsChanged /\ IssuerReadyToIssue(v, cNew, pNew)
       THEN "SetCredentialData" ELSE cur

\* the second effect as it would be without its condition on the issue step
VerifyStepAfterUnguarded(iOld, iNew, cur) ==
  IF iOld # iNew THEN "RequestProofPresentation" ELSE cur

\* Second effect of the issue-and-verify flows.
VerifyStepAfter(iOld, iNew, cur) ==
  IF iOld # iNew /\ iNew = "Done" THEN "RequestProofPresentation" ELSE cur

\* First effect of the hold-and-prove flow.
AcceptOfferStepAfter(cOld, cNew, cur) ==
  IF cOld # cNew /\ cNew = "Done" THEN "WaitToReceiveCredentialOffer" ELSE cur

\* Second effect of the hold-and-prove flow.
PresentStepAfter(aOld, aNew, cur) ==
  IF aOld # aNew /\ aNew = "Done" THEN "WaitToReceiveProofRequest" ELSE cur

\* The steps of an issue-and-verify flow after a handler left the connection,
\* publish and issue steps at cN, pN, iN and the flow's effects have run.
InviterEffects(cN, pN, iN) ==
  LET c2 == SetState(connectionStep, cN)
      p2 == SetState(publishStep, pN)
      i2 == IssueStepAfter(variant, connectionStep, publishStep, c2, p2,
                           SetState(issueStep, iN))
  IN /\ connectionStep' = c2
     /\ publishStep' = p2
     /\ issueStep' = i2
     /\ verifyStep' = VerifyStepAfter(issueStep, i2, verifyStep)
     /\ UNCHANGED <<acceptOfferStep, presentStep>>

\* an effect called the poll function (starts) or not: the poll's variables
\* and the query it sends first
PollAfter(starts, poll, id) == IF starts THEN Restart(poll, id) ELSE poll
QueryAfter(starts, kind, id) == IF starts THEN {Get(kind, id)} ELSE {}

\* The effects on [step] of AcceptCredentialOffer and PresentCredential: whether
\* the render that changed the step from old to new calls the discovery poll.
OfferPollStarts(old, new) == old # new /\ new = "WaitToReceiveCredentialOffer"
RequestPollStarts(old, new) == old # new /\ new = "WaitToReceiveProofRequest"

\* The steps of the hold-and-prove flow after a handler left the connection
\* and accept-offer steps at cN, aN (and pollForCredentialOffer's variables at
\* offerPollN, having sent the queries ownGets), and the effects have run:
\* the flow's two effects, then the effects of AcceptCredentialOffer and
\* PresentCredential that start the discovery polls with the connection id
\* of that render.
HolderEffects(cN, aN, connId, offerPollN, ownGets) ==
  LET c2 == SetState(connectionStep, cN)
      a2 == AcceptOfferStepAfter(connectionStep, c2, SetState(acceptOfferStep, aN))
      p2 == PresentStepAfter(acceptOfferStep, a2, presentStep)
      startOffer == OfferPollStarts(acceptOfferStep, a2)
      startRequest == RequestPollStarts(presentStep, p2)
  IN /\ connectionStep' = c2
     /\ acceptOfferStep' = a2
     /\ presentStep' = p2
     /\ offerPoll' = PollAfter(startOffer, offerPollN, connId)
     /\ requestPoll' = PollAfter(startRequest, requestPoll, connId)
     /\ gets' = gets \cup ownGets
                  \cup QueryAfter(startOffer, "credentialOffer", connId)
                  \cup QueryAfter(startRequest, "proofRequest", connId)
     /\ UNCHANGED <<publishStep, issueStep, verifyStep>>

\* what a poll loop shows of a successful response: setXState(responseData.state)
\* comes before the loop looks at the state
ShownStateKept(old, responseData) == old
ShownState(old, responseData) == SetState(old, responseData.state)

\* ------------------------------------------------------------------------
\* "Establish Connection to Holder's Wallet" (inviter)
\* ------------------------------------------------------------------------

InviterStepForAlias(newConnectionAlias) ==
  IF newConnectionAlias # "" THEN "CreateInvitation" ELSE "SetConnectionAlias"

InviterOnChangeConnectionAlias ==
  /\ mounted
  /\ variant \in InviterVariants
  /\ connectionStep \in {"SetConnectionAlias", "CreateInvitation"}
  /\ \E newConnectionAlias \in Texts :
       /\ connectionAlias' = newConnectionAlias
       /\ InviterEffects(InviterStepForAlias(newConnectionAlias), publishStep, issueStep)
  /\ UNCHANGED <<mounted, backendVars, variant, connectionId, connectionState, invitationUrl, connPoll,
                 schemaId, credDefId, credDataVars, offerPoll, credPoll,
                 presDataVars, requestPoll, presPoll, pending, posts, gets>>

\* the guard of handleOnClickCreateInvitation (and the button's disabled
\* property): the click is acted on in this step only
CreateInvitationClickableWhileWaiting(step) ==
  step \in {"CreateInvitation", "WaitForInvitationCreation"}
CreateInvitationClickableAfterCreation(step) ==
  step \in {"CreateInvitation", "AcceptInvitation"}
CreateInvitationClickable(step) == step = "CreateInvitation"

InviterOnClickCreateInvitation ==
  /\ mounted
  /\ variant \in InviterVariants
  /\ CreateInvitationClickable(connectionStep)
  /\ InviterEffects("WaitForInvitationCreation", publishStep, issueStep)
  /\ pending' = pending \cup {"createInvitation"}
  /\ posts' = Append(posts, [kind |-> "createInvitation", alias |-> connectionAlias])
  /\ UNCHANGED <<mounted, backendVars, variant, connectionAlias, connectionId, connectionState,
                 invitationUrl, connPoll, schemaId, credDefId, credDataVars,
                 offerPoll, credPoll, presDataVars, requestPoll, presPoll, gets>>

\* the effect on [step] of the inviter's connection component: whether the
\* render that changed the step from old to new calls pollConnectionState
InviterPollStartsEveryRender(old, new) == new = "AcceptInvitation"
InviterPollStarts(old, new) == old # new /\ new = "AcceptInvitation"

\* the awaited POST settles: on success the rest of the handler runs, and the
\* effect on [step] starts pollConnectionState; on failure the handler's
\* promise rejects and nothing more of it runs
CreateInvitationResponse ==
  /\ "createInvitation" \in pending
  /\ pending' = pending \ {"createInvitation"}
  /\ \E result \in SdkInvitationResults({NewConnId(Sent("createInvitation"))}) :
       LET responseData == createConnectionInvitation(connectionAlias, result)
       IN IF responseData.ok
            THEN /\ connectionId' = SetState(connectionId, responseData.connectionId)
                 /\ invitationUrl' = SetState(invitationUrl, responseData.invitationUrl)
                 /\ InviterEffects("AcceptInvitation", publishStep, issueStep)
            ELSE /\ InviterEffects(connectionStep, publishStep, issueStep)
                 /\ UNCHANGED <<connectionId, invitationUrl>>
  /\ LET starts == InviterPollStarts(connectionStep, connectionStep')
     IN /\ connPoll' = PollAfter(starts, connPoll, connectionId')
        /\ gets' = gets \cup QueryAfter(starts, "connectionState", connectionId')
  /\ UNCHANGED <<mounted, backendVars, variant, connectionAlias, connectionState, schemaId, credDefId,
                 credDataVars, offerPoll, credPoll, presDataVars, requestPoll,
                 presPoll, posts>>

\* isReady as it would be if only 'active' counted
InviterIsReadyActiveOnly(state) == state = "active"
InviterIsReadyResponseOnly(state) == state = "response"
InviterIsReady(state) == state = "response" \/ state = "active"
InviterIsActiveNever(state) == FALSE
InviterIsActive(state) == state = "active"

\* first loop of pollConnectionState: the awaited query settles; the state is
\* shown, and the render that shows a new state runs the effect on [step]
InviterPollResponse ==
  /\ variant \in InviterVariants
  /\ connPoll.pc = "await"
  /\ \E result \in SdkConnResults :
       LET responseData == getConnectionState(connPoll.id, result)
           settled == IF responseData.ok
                        THEN [connPoll EXCEPT !.pc = "sleep",
                                !.flag = InviterIsReady(responseData.state),
                                !.responseData = responseData]
                        ELSE [connPoll EXCEPT !.pc = "aborted"]
           shown == IF responseData.ok
                      THEN ShownState(connectionState, responseData)
                      ELSE connectionState
           starts == shown # connectionState
                       /\ InviterPollStarts(connectionStep, connectionStep)
       IN /\ connectionState' = shown
          /\ connPoll' = PollAfter(starts, settled, connectionId)
          /\ gets' = gets \cup QueryAfter(starts, "connectionState", connectionId)
  /\ UNCHANGED <<mounted, backendVars, variant, connectionStep, connectionAlias, connectionId,
                 invitationUrl, pubVars, credVars, presVars, pending, posts>>

\* first loop: the sleep ends; either the next query is sent or the loop is
\* left, the step set to Done (with the flow's effects on it) and the first
\* query of the second loop sent
InviterPollWake ==
  /\ variant \in InviterVariants
  /\ connPoll.pc = "sleep"
  /\ gets' = gets \cup {Get("connectionState", connPoll.id)}
  /\ IF connPoll.flag
       THEN /\ InviterEffects("Done", publishStep, issueStep)
            /\ connPoll' = [connPoll EXCEPT !.pc = "await2", !.flag = FALSE]
       ELSE /\ InviterEffects(connectionStep, publishStep, issueStep)
            /\ connPoll' = [connPoll EXCEPT !.pc = "await"]
  /\ UNCHANGED <<mounted, backendVars, variant, connectionAlias, connectionId, connectionState,
                 invitationUrl, schemaId, credDefId, credDataVars, offerPoll,
                 credPoll, presDataVars, requestPoll, presPoll, pending, posts>>

\* second loop (display only): the awaited query settles
InviterPollResponse2 ==
  /\ variant \in InviterVariants
  /\ connPoll.pc = "await2"
  /\ \E result \in SdkConnResults :
       LET responseData == getConnectionState(connPoll.id, result)
       IN IF responseData.ok
            THEN /\ connPoll' = [connPoll EXCEPT !.pc = "sleep2",
                                   !.flag = InviterIsActive(responseData.state),
                                   !.responseData = responseData]
                 /\ connectionState' = ShownState(connectionState, responseData)
            ELSE /\ connPoll' = [connPoll EXCEPT !.pc = "aborted"]
                 /\ UNCHANGED connectionState
  /\ UNCHANGED <<mounted, backendVars, variant, connectionStep, connectionAlias, connectionId,
                 invitationUrl, pubVars, credVars, presVars, pending, posts, gets>>

InviterPollWake2 ==
  /\ variant \in InviterVariants
  /\ connPoll.pc = "sleep2"
  /\ IF connPoll.flag
       THEN /\ connPoll' = [connPoll EXCEPT !.pc = "done"]
            /\ UNCHANGED gets
       ELSE /\ connPoll' = [connPoll EXCEPT !.pc = "await2"]
            /\ gets' = gets \cup {Get("connectionState", connPoll.id)}
  /\ UNCHANGED <<mounted, backendVars, variant, connectionStep, connectionAlias, connectionId,
                 connectionState, invitationUrl, pubVars, credVars, presVars,
                 pending, posts>>

\* ------------------------------------------------------------------------
\* "Establish Connection to Issuer/Verifier" (invitee)
\* ------------------------------------------------------------------------

InviteeStepForAlias(newConnectionAlias, url) ==
  IF newConnectionAlias # ""
    THEN IF url # "" THEN "AcceptInvitation" ELSE "SetInvitationUrl"
    ELSE "SetConnectionAlias"

\* the step after an edit of the URL as it would be without the look at the alias
InviteeStepForUrlIgnoringAlias(newInvitationUrl, alias) ==
  IF newInvitationUrl # "" THEN "AcceptInvitation" ELSE "SetInvitationUrl"

InviteeStepForUrl(newInvitationUrl, alias) ==
  IF newInvitationUrl # ""
    THEN IF alias # "" THEN "AcceptInvitation" ELSE "SetConnectionAlias"
    ELSE "SetInvitationUrl"

\* the editable steps as they would be if the fields stayed open while the
\* command is in flight
InviteeEditableStepsWhileWaiting ==
  {"SetConnectionAlias", "SetInvitationUrl", "AcceptInvitation",
   "WaitForInvitationAcceptance"}
InviteeEditableSteps == {"SetConnectionAlias", "SetInvitationUrl", "AcceptInvitation"}

InviteeOnChangeConnectionAlias ==
  /\ mounted
  /\ variant = "w3cHold"
  /\ connectionStep \in InviteeEditableSteps
  /\ \E newConnectionAlias \in Texts :
       /\ connectionAlias' = newConnectionAlias
       /\ HolderEffects(InviteeStepForAlias(newConnectionAlias, invitationUrl),
                        acceptOfferStep, connectionId, offerPoll, {})
  /\ UNCHANGED <<mounted, backendVars, variant, connectionId, connectionState, invitationUrl, connPoll,
                 schemaId, credDefId, credDataVars, credPoll, presDataVars,
                 presPoll, pending, posts>>

InviteeOnChangeInvitationUrl ==
  /\ mounted
  /\ variant = "w3cHold"
  /\ connectionStep \in InviteeEditableSteps
  /\ \E newInvitationUrl \in Texts :
       /\ invitationUrl' = newInvitationUrl
       /\ HolderEffects(InviteeStepForUrl(newInvitationUrl, connectionAlias),
                        acceptOfferStep, connectionId, offerPoll, {})
  /\ UNCHANGED <<mounted, backendVars, variant, connectionAlias, connectionId, connectionState, connPoll,
                 schemaId, credDefId, credDataVars, credPoll, presDataVars,
                 presPoll, pending, posts>>

\* the guard of handleOnClickAcceptInvitation
AcceptInvitationClickable(step) == step = "AcceptInvitation"

InviteeOnClickAcceptInvitation ==
  /\ mounted
  /\ variant = "w3cHold"
  /\ AcceptInvitationClickable(connectionStep)
  /\ HolderEffects("WaitForInvitationAcceptance", acceptOfferStep, connectionId,
                   offerPoll, {})
  /\ pending' = pending \cup {"acceptInvitation"}
  /\ posts' = Append(posts, [kind |-> "acceptInvitation", alias |-> connectionAlias,
                             invitationUrl |-> invitationUrl])
  /\ UNCHANGED <<mounted, backendVars, variant, connectionAlias, connectionId, connectionState,
                 invitationUrl, connPoll, schemaId, credDefId, credDataVars,
                 credPoll, presDataVars, presPoll>>

\* the effect on [step] of the invitee's connection component
InviteePollStarts(old, new) == old # new /\ new = "WaitForConnectionActive"

\* on success the step becomes WaitForConnectionActive and the effect on
\* [step] starts pollConnectionState
AcceptInvitationResponse ==
  /\ "acceptInvitation" \in pending
  /\ pending' = pending \ {"acceptInvitation"}
  /\ \E decodes \in BOOLEAN,
        result \in SdkReceiveInvitationResults({NewConnId(Sent("acceptInvitation"))}) :
       LET responseData ==
             acceptConnectionInvitation(connectionAlias, invitationUrl, decodes, result)
           id == IF responseData.ok
                   THEN SetState(connectionId, responseData.connectionId)
                   ELSE connectionId
           step == IF responseData.ok THEN "WaitForConnectionActive" ELSE connectionStep
           starts == InviteePollStarts(connectionStep, SetState(connectionStep, step))
       IN /\ connectionId' = id
          /\ HolderEffects(step, acceptOfferStep, id, offerPoll,
                           QueryAfter(starts, "connectionState", id))
          /\ connPoll' = PollAfter(starts, connPoll, id)
  /\ UNCHANGED <<mounted, backendVars, variant, connectionAlias, connectionState, invitationUrl, schemaId,
                 credDefId, credDataVars, credPoll, presDataVars, presPoll, posts>>

\* isActive as it would be if 'response' counted as well
InviteeIsActiveOrResponse(state) == state = "response" \/ state = "active"
InviteeIsActive(state) == state = "active"

InviteePollResponse ==
  /\ variant = "w3cHold"
  /\ connPoll.pc = "await"
  /\ \E result \in SdkConnResults :
       LET responseData == getConnectionState(connPoll.id, result)
       IN IF responseData.ok
            THEN /\ connPoll' = [connPoll EXCEPT !.pc = "sleep",
                                   !.flag = InviteeIsActive(responseData.state),
                                   !.responseData = responseData]
                 /\ connectionState' = ShownState(connectionState, responseData)
            ELSE /\ connPoll' = [connPoll EXCEPT !.pc = "aborted"]
                 /\ UNCHANGED connectionState
  /\ UNCHANGED <<mounted, backendVars, variant, connectionStep, connectionAlias, connectionId,
                 invitationUrl, pubVars, credVars, presVars, pending, posts, gets>>

\* the sleep ends; either the next query is sent, or the loop is left and the
\* step set to Done, on which the flow's effects run
InviteePollWake ==
  /\ variant = "w3cHold"
  /\ connPoll.pc = "sleep"
  /\ IF connPoll.flag
       THEN /\ HolderEffects("Done", acceptOfferStep, connectionId, offerPoll, {})
            /\ connPoll' = [connPoll EXCEPT !.pc = "done"]
       ELSE /\ HolderEffects(connectionStep, acceptOfferStep, connectionId, offerPoll,
                             {Get("connectionState", connPoll.id)})
            /\ connPoll' = [connPoll EXCEPT !.pc = "await"]
  /\ UNCHANGED <<mounted, backendVars, variant, connectionAlias, connectionId, connectionState,
                 invitationUrl, schemaId, credDefId, credDataVars, credPoll,
                 presDataVars, presPoll, pending, posts>>

\* ------------------------------------------------------------------------
\* "Prepare to Issue Credentials" (AnonCreds flow): PublishSchema, PublishCredDef
\* ------------------------------------------------------------------------

OnClickPublishSchema ==
  /\ mounted
  /\ variant = "anoncreds"
  /\ publishStep = "PublishSchema"
  /\ InviterEffects(connectionStep, "WaitForPublishSchema", issueStep)
  /\ pending' = pending \cup {"publishSchema"}
  /\ posts' = Append(posts, [kind |-> "publishSchema"])
  /\ UNCHANGED <<mounted, backendVars, variant, connectionAlias, connectionId, connectionState,
                 invitationUrl, connPoll, schemaId, credDefId, credDataVars,
                 offerPoll, credPoll, presDataVars, requestPoll, presPoll, gets>>

PublishSchemaResponse ==
  /\ "publishSchema" \in pending
  /\ pending' = pending \ {"publishSchema"}
  /\ \E result \in SdkIdResults(SchemaIds) :
       LET responseData == publishAnoncredsSchema(result)
       IN IF responseData.ok
            THEN /\ schemaId' = SetState(schemaId, responseData.schemaId)
                 /\ InviterEffects(connectionStep, "PublishCredDef", issueStep)
            ELSE /\ InviterEffects(connectionStep, publishStep, issueStep)
                 /\ UNCHANGED schemaId
  /\ UNCHANGED <<mounted, backendVars, variant, connectionAlias, connectionId, connectionState,
                 invitationUrl, connPoll, credDefId, credDataVars, offerPoll,
                 credPoll, presDataVars, requestPoll, presPoll, posts, gets>>

OnClickPublishCredDef ==
  /\ mounted
  /\ variant = "anoncreds"
  /\ publishStep = "PublishCredDef"
  /\ InviterEffects(connectionStep, "WaitForPublishCredDef", issueStep)
  /\ pending' = pending \cup {"publishCredDef"}
  /\ posts' = Append(posts, [kind |-> "publishCredDef", schemaId |-> schemaId])
  /\ UNCHANGED <<mounted, backendVars, variant, connectionAlias, connectionId, connectionState,
                 invitationUrl, connPoll, schemaId, credDefId, credDataVars,
                 offerPoll, credPoll, presDataVars, requestPoll, presPoll, gets>>

\* on success the publish step becomes Done, and the flow's first effect runs
PublishCredDefResponse ==
  /\ "publishCredDef" \in pending
  /\ pending' = pending \ {"publishCredDef"}
  /\ \E result \in SdkIdResults(CredDefIds) :
       LET responseData == publishAnoncredsCredDef(schemaId, result)
       IN IF responseData.ok
            THEN /\ credDefId' = SetState(credDefId, responseData.credDefId)
                 /\ InviterEffects(connectionStep, "Done", issueStep)
            ELSE /\ InviterEffects(connectionStep, publishStep, issueStep)
                 /\ UNCHANGED credDefId
  /\ UNCHANGED <<mounted, backendVars, variant, connectionAlias, connectionId, connectionState,
                 invitationUrl, connPoll, schemaId, credDataVars, offerPoll,
                 credPoll, presDataVars, requestPoll, presPoll, posts, gets>>

\* ------------------------------------------------------------------------
\* "Issue Credential" (issuer; AnonCreds and W3C components)
\* ------------------------------------------------------------------------

IssueStepForData(newAttribute, otherAttribute) ==
  IF newAttribute # "" /\ otherAttribute # ""
    THEN "SendCredentialOffer" ELSE "SetCredentialData"

IssueEditableSteps == {"SetCredentialData", "SendCredentialOffer"}

\* handleOnChangeAttributeName / handleOnChangeAttributeGivenName
OnChangeAttribute1 ==
  /\ mounted
  /\ variant \in InviterVariants
  /\ issueStep \in IssueEditableSteps
  /\ \E newAttribute \in Texts :
       /\ issueAttribute1' = newAttribute
       /\ InviterEffects(connectionStep, publishStep,
                         IssueStepForData(newAttribute, issueAttribute2))
  /\ UNCHANGED <<mounted, backendVars, variant, connectionAlias, connectionId, connectionState,
                 invitationUrl, connPoll, schemaId, credDefId, issueAttribute2,
                 credentialExchangeId, credentialExchangeState, issuerDid,
                 credentialId, holderDid, offerPoll, credPoll, presDataVars,
                 requestPoll, presPoll, pending, posts, gets>>

\* handleOnChangeAttributeExpiry / handleOnChangeAttributeFamilyName
OnChangeAttribute2 ==
  /\ mounted
  /\ variant \in InviterVariants
  /\ issueStep \in IssueEditableSteps
  /\ \E newAttribute \in Texts :
       /\ issueAttribute2' = newAttribute
       /\ InviterEffects(connectionStep, publishStep,
                         IssueStepForData(newAttribute, issueAttribute1))
  /\ UNCHANGED <<mounted, backendVars, variant, connectionAlias, connectionId, connectionState,
                 invitationUrl, connPoll, schemaId, credDefId, issueAttribute1,
                 credentialExchangeId, credentialExchangeState, issuerDid,
                 credentialId, holderDid, offerPoll, credPoll, presDataVars,
                 requestPoll, presPoll, pending, posts, gets>>

\* handleOnClickSendCredentialOffer (of both IssueCredential components) up to
\* its first await, called in the given step: whether it sends the offer,
\* whether it throws, and the step it leaves (the second is the handler as it
\* would be without its test of the step)
handleOnClickSendCredentialOfferUnguarded(step) ==
  [sends |-> TRUE, throws |-> FALSE, step |-> "WaitForSendCredentialOffer"]
handleOnClickSendCredentialOffer(step) ==
  IF step # "SendCredentialOffer"
    THEN [sends |-> FALSE, throws |-> FALSE, step |-> step]
    ELSE [sends |-> TRUE, throws |-> FALSE, step |-> "WaitForSendCredentialOffer"]

OnClickSendCredentialOffer ==
  /\ mounted
  /\ variant \in InviterVariants
  /\ handleOnClickSendCredentialOffer(issueStep).sends
  /\ InviterEffects(connectionStep, publishStep,
                    handleOnClickSendCredentialOffer(issueStep).step)
  /\ pending' = pending \cup {"sendCredentialOffer"}
  /\ posts' = Append(posts, [kind |-> "sendCredentialOffer",
                             connectionId |-> connectionId, credDefId |-> credDefId,
                             attribute1 |-> issueAttribute1,
                             attribute2 |-> issueAttribute2])
  /\ UNCHANGED <<mounted, backendVars, variant, connectionAlias, connectionId, connectionState,
                 invitationUrl, connPoll, schemaId, credDefId, credDataVars,
                 offerPoll, credPoll, presDataVars, requestPoll, presPoll, gets>>

\* the effect on [step] of the IssueCredential components: whether the render
\* that changed the step from old to new calls pollCredentialExchangeState
IssuerPollStartsEveryRender(old, new) == new = "AcceptCredential"
IssuerPollStarts(old, new) == old # new /\ new = "AcceptCredential"

\* on success the step becomes AcceptCredential and the effect on [step]
\* starts pollCredentialExchangeState
SendCredentialOfferResponse ==
  /\ "sendCredentialOffer" \in pending
  /\ pending' = pending \ {"sendCredentialOffer"}
  /\ \E didResult \in SdkIdResults(Dids), result \in SdkIdResults(CredExIds) :
       LET responseData ==
             IF variant = "anoncreds"
               THEN sendAnoncredsCredentialOffer(connectionId, credDefId, result)
               ELSE sendW3cCredentialOffer(connectionId, didResult, result)
       IN IF responseData.ok
            THEN /\ credentialExchangeId' =
                      SetState(credentialExchangeId, responseData.credentialExchangeId)
                 /\ issuerDid' = SetState(issuerDid, responseData.issuerDid)
                 /\ InviterEffects(connectionStep, publishStep, "AcceptCredential")
            ELSE /\ InviterEffects(connectionStep, publishStep, issueStep)
                 /\ UNCHANGED <<credentialExchangeId, issuerDid>>
  /\ LET starts == IssuerPollStarts(issueStep, issueStep')
     IN /\ credPoll' = PollAfter(starts, credPoll, credentialExchangeId')
        /\ gets' = gets \cup QueryAfter(starts, "credentialExchangeState",
                                        credentialExchangeId')
  /\ UNCHANGED <<mounted, backendVars, variant, connectionAlias, connectionId, connectionState,
                 invitationUrl, connPoll, schemaId, credDefId, issueAttribute1,
                 issueAttribute2, credentialExchangeState, credentialId, holderDid,
                 offerPoll, presDataVars, requestPoll, presPoll, posts>>

IssuedState(v) == IF v = "anoncreds" THEN "credential_issued" ELSE "credential-issued"
AckedState(v) == IF v = "anoncreds" THEN "credential_acked" ELSE "done"

\* isAccepted as it would be if only the acknowledged state counted
IssuerIsAcceptedAckedOnly(v, state) == state = AckedState(v)
IssuerIsAccepted(v, state) == state = IssuedState(v) \/ state = AckedState(v)
IssuerIsAcked(v, state) == state = AckedState(v)

getCredentialExchangeState(v, id, result) ==
  IF v = "anoncreds" THEN getAnoncredsCredentialExchangeState(id, result)
                     ELSE getW3cCredentialExchangeState(id, result)

\* first loop of pollCredentialExchangeState: the awaited query settles
IssuerPollResponse ==
  /\ variant \in InviterVariants
  /\ credPoll.pc = "await"
  /\ \E result \in SdkCredResults(variant) :
       LET responseData == getCredentialExchangeState(variant, credPoll.id, result)
           settled == IF responseData.ok
                        THEN [credPoll EXCEPT !.pc = "sleep",
                                !.flag = IssuerIsAccepted(variant, responseData.state),
                                !.responseData = responseData]
                        ELSE [credPoll EXCEPT !.pc = "aborted"]
           shown == IF responseData.ok
                      THEN ShownState(credentialExchangeState, responseData)
                      ELSE credentialExchangeState
           starts == shown # credentialExchangeState
                       /\ IssuerPollStarts(issueStep, issueStep)
       IN /\ credentialExchangeState' = shown
          /\ credPoll' = PollAfter(starts, settled, credentialExchangeId)
          /\ gets' = gets \cup QueryAfter(starts, "credentialExchangeState",
                                          credentialExchangeId)
  /\ UNCHANGED <<mounted, backendVars, variant, connVars, pubVars, issueStep, acceptOfferStep,
                 issueAttribute1, issueAttribute2, credentialExchangeId, issuerDid,
                 credentialId, holderDid, offerPoll, presVars, pending, posts>>

\* first loop: the sleep ends; either the next query is sent, or the loop is
\* left, the step set to Done (the flow's second effect then enables the
\* verify step) and the first query of the second loop sent
IssuerPollWake ==
  /\ variant \in InviterVariants
  /\ credPoll.pc = "sleep"
  /\ gets' = gets \cup {Get("credentialExchangeState", credPoll.id)}
  /\ IF credPoll.flag
       THEN /\ InviterEffects(connectionStep, publishStep, "Done")
            /\ credPoll' = [credPoll EXCEPT !.pc = "await2", !.flag = FALSE]
       ELSE /\ InviterEffects(connectionStep, publishStep, issueStep)
            /\ credPoll' = [credPoll EXCEPT !.pc = "await"]
  /\ UNCHANGED <<mounted, backendVars, variant, connectionAlias, connectionId, connectionState,
                 invitationUrl, connPoll, schemaId, credDefId, credDataVars,
                 offerPoll, presDataVars, requestPoll, presPoll, pending, posts>>

\* second loop (display only)
IssuerPollResponse2 ==
  /\ variant \in InviterVariants
  /\ credPoll.pc = "await2"
  /\ \E result \in SdkCredResults(variant) :
       LET responseData == getCredentialExchangeState(variant, credPoll.id, result)
       IN IF responseData.ok
            THEN /\ credPoll' = [credPoll EXCEPT !.pc = "sleep2",
                                   !.flag = IssuerIsAcked(variant, responseData.state),
                                   !.responseData = responseData]
                 /\ credentialExchangeState' =
                      ShownState(credentialExchangeState, responseData)
            ELSE /\ credPoll' = [credPoll EXCEPT !.pc = "aborted"]
                 /\ UNCHANGED credentialExchangeState
  /\ UNCHANGED <<mounted, backendVars, variant, connVars, pubVars, issueStep, acceptOfferStep,
                 issueAttribute1, issueAttribute2, credentialExchangeId, issuerDid,
                 credentialId, holderDid, offerPoll, presVars, pending, posts, gets>>

IssuerPollWake2 ==
  /\ variant \in InviterVariants
  /\ credPoll.pc = "sleep2"
  /\ IF credPoll.flag
       THEN /\ credPoll' = [credPoll EXCEPT !.pc = "done"]
            /\ UNCHANGED gets
       ELSE /\ credPoll' = [credPoll EXCEPT !.pc = "await2"]
            /\ gets' = gets \cup {Get("credentialExchangeState", credPoll.id)}
  /\ UNCHANGED <<mounted, backendVars, variant, connVars, pubVars, issueStep, acceptOfferStep,
                 credDataVars, offerPoll, presVars, pending, posts>>

\* ------------------------------------------------------------------------
\* "Accept Credential Offer" (holder)
\* ------------------------------------------------------------------------

OfferIsReceived(responseData) ==
  responseData.credentialExchangeId # Absent /\ responseData.credentialData.defined

\* pollForCredentialOffer: the awaited query settles
OfferPollResponse ==
  /\ offerPoll.pc = "await"
  /\ \E result \in SdkOfferResults :
       LET responseData == getW3cCredentialOffer(offerPoll.id, result)
       IN IF responseData.ok
            THEN offerPoll' = [offerPoll EXCEPT !.pc = "sleep",
                                 !.flag = OfferIsReceived(responseData),
                                 !.responseData = responseData,
                                   !.result = result]
            ELSE offerPoll' = [offerPoll EXCEPT !.pc = "aborted", !.result = result]
  /\ UNCHANGED <<mounted, backendVars, variant, connVars, pubVars, issueStep, acceptOfferStep,
                 credDataVars, credPoll, presVars, pending, posts, gets>>

\* the sleep ends; either the next query is sent, or the loop is left and the
\* offer taken over into the component's state
OfferPollWake ==
  /\ offerPoll.pc = "sleep"
  /\ IF offerPoll.flag
       THEN /\ credentialExchangeId' =
                 SetState(credentialExchangeId,
                          OrEmpty(offerPoll.responseData.credentialExchangeId))
            /\ issueAttribute1' =
                 SetState(issueAttribute1, offerPoll.responseData.credentialData.givenName)
            /\ issueAttribute2' =
                 SetState(issueAttribute2, offerPoll.responseData.credentialData.familyName)
            /\ HolderEffects(connectionStep, "AcceptCredentialOffer", connectionId,
                             [offerPoll EXCEPT !.pc = "done"], {})
       ELSE /\ HolderEffects(connectionStep, acceptOfferStep, connectionId,
                             [offerPoll EXCEPT !.pc = "await"],
                             {Get("credentialOffer", offerPoll.id)})
            /\ UNCHANGED <<credentialExchangeId, issueAttribute1, issueAttribute2>>
  /\ UNCHANGED <<mounted, backendVars, variant, connectionAlias, connectionId, connectionState,
                 invitationUrl, connPoll, schemaId, credDefId,
                 credentialExchangeState, issuerDid, credentialId, holderDid,
                 credPoll, presDataVars, presPoll, pending, posts>>

\* the guard of handleOnClickAcceptCredentialOffer
AcceptCredentialOfferClickableWhenDone(step) ==
  step \in {"AcceptCredentialOffer", "Done"}
AcceptCredentialOfferClickable(step) == step = "AcceptCredentialOffer"

OnClickAcceptCredentialOffer ==
  /\ mounted
  /\ variant = "w3cHold"
  /\ AcceptCredentialOfferClickable(acceptOfferStep)
  /\ HolderEffects(connectionStep, "WaitForAcceptCredentialOffer", connectionId,
                   offerPoll, {})
  /\ pending' = pending \cup {"acceptCredentialOffer"}
  /\ posts' = Append(posts, [kind |-> "acceptCredentialOffer",
                             credentialExchangeId |-> credentialExchangeId])
  /\ UNCHANGED <<mounted, backendVars, variant, connectionAlias, connectionId, connectionState,
                 invitationUrl, connPoll, schemaId, credDefId, credDataVars,
                 credPoll, presDataVars, presPoll>>

\* the effect on [step] of AcceptCredentialOffer that calls
\* pollCredentialExchangeState
HolderPollStarts(old, new) == old # new /\ new = "WaitToReceiveCredential"

\* on success the step becomes WaitToReceiveCredential and the effect on
\* [step] starts pollCredentialExchangeState
AcceptCredentialOfferResponse ==
  /\ "acceptCredentialOffer" \in pending
  /\ pending' = pending \ {"acceptCredentialOffer"}
  /\ \E didResult \in SdkIdResults(Dids), result \in {Error, [ok |-> TRUE]} :
       LET responseData ==
             postW3cCredentialRequest(credentialExchangeId, didResult, result)
           step == IF responseData.ok THEN "WaitToReceiveCredential"
                                      ELSE acceptOfferStep
           starts == HolderPollStarts(acceptOfferStep, SetState(acceptOfferStep, step))
       IN /\ holderDid' = IF responseData.ok
                            THEN SetState(holderDid, responseData.holderDid)
                            ELSE holderDid
          /\ HolderEffects(connectionStep, step, connectionId, offerPoll,
                           QueryAfter(starts, "credentialExchangeState",
                                      credentialExchangeId))
          /\ credPoll' = PollAfter(starts, credPoll, credentialExchangeId)
  /\ UNCHANGED <<mounted, backendVars, variant, connectionAlias, connectionId, connectionState,
                 invitationUrl, connPoll, schemaId, credDefId, issueAttribute1,
                 issueAttribute2, credentialExchangeId, credentialExchangeState,
                 issuerDid, credentialId, presDataVars, presPoll, posts>>

HolderIsReceived(state) == state = "done"

HolderPollResponse ==
  /\ variant = "w3cHold"
  /\ credPoll.pc = "await"
  /\ \E result \in SdkCredResults(variant) :
       LET responseData == getW3cCredentialExchangeState(credPoll.id, result)
       IN IF responseData.ok
            THEN /\ credPoll' = [credPoll EXCEPT !.pc = "sleep",
                                   !.flag = HolderIsReceived(responseData.state),
                                   !.responseData = responseData]
                 /\ credentialExchangeState' =
                      ShownState(credentialExchangeState, responseData)
                 /\ credentialId' =
                      SetState(credentialId, OrEmpty(responseData.credentialId))
            ELSE /\ credPoll' = [credPoll EXCEPT !.pc = "aborted"]
                 /\ UNCHANGED <<credentialExchangeState, credentialId>>
  /\ UNCHANGED <<mounted, backendVars, variant, connVars, pubVars, issueStep, acceptOfferStep,
                 issueAttribute1, issueAttribute2, credentialExchangeId, issuerDid,
                 holderDid, offerPoll, presVars, pending, posts, gets>>

\* the sleep ends; either the next query is sent, or the loop is left and the
\* step set to Done: the flow's second effect then moves the present step
\* on, whose own effect starts pollForProofRequest
HolderPollWake ==
  /\ variant = "w3cHold"
  /\ credPoll.pc = "sleep"
  /\ IF credPoll.flag
       THEN /\ HolderEffects(connectionStep, "Done", connectionId, offerPoll, {})
            /\ credPoll' = [credPoll EXCEPT !.pc = "done"]
       ELSE /\ HolderEffects(connectionStep, acceptOfferStep, connectionId, offerPoll,
                             {Get("credentialExchangeState", credPoll.id)})
            /\ credPoll' = [credPoll EXCEPT !.pc = "await"]
  /\ UNCHANGED <<mounted, backendVars, variant, connectionAlias, connectionId, connectionState,
                 invitationUrl, connPoll, schemaId, credDefId, credDataVars,
                 presDataVars, presPoll, pending, posts>>

\* ------------------------------------------------------------------------
\* "Verify Credential" (verifier)
\* ------------------------------------------------------------------------

\* the guard of handleOnClickRequestProofPresentation
RequestProofPresentationClickable(step) == step = "RequestProofPresentation"

OnClickRequestProofPresentation ==
  /\ mounted
  /\ variant \in InviterVariants
  /\ RequestProofPresentationClickable(verifyStep)
  /\ verifyStep' = "WaitForRequestProofPresentation"
  /\ pending' = pending \cup {"sendProofRequest"}
  /\ posts' = Append(posts, [kind |-> "sendProofRequest",
                             connectionId |-> connectionId,
                             credDefId |-> credDefId, issuerDid |-> issuerDid])
  /\ UNCHANGED <<mounted, backendVars, variant, connVars, pubVars, credVars, presentStep, presDataVars,
                 requestPoll, presPoll, gets>>

\* the effect on [step] of the VerifyCredential components
VerifierPollStarts(old, new) == old # new /\ new = "PresentProof"

\* on success the step becomes PresentProof and the effect on [step] starts
\* pollProofPresentationExchangeState
RequestProofPresentationResponse ==
  /\ "sendProofRequest" \in pending
  /\ pending' = pending \ {"sendProofRequest"}
  /\ \E result \in SdkIdResults(PresExIds) :
       LET responseData ==
             IF variant = "anoncreds"
               THEN sendAnoncredsProofRequest(connectionId, credDefId, result)
               ELSE sendW3cProofRequest(connectionId, issuerDid, result)
       IN IF responseData.ok
            THEN /\ presentationExchangeId' =
                      SetState(presentationExchangeId,
                               responseData.presentationExchangeId)
                 /\ verifyStep' = SetState(verifyStep, "PresentProof")
            ELSE UNCHANGED <<presentationExchangeId, verifyStep>>
  /\ LET starts == VerifierPollStarts(verifyStep, verifyStep')
     IN /\ presPoll' = PollAfter(starts, presPoll, presentationExchangeId')
        /\ gets' = gets \cup QueryAfter(starts, "presentationExchangeState",
                                        presentationExchangeId')
  /\ UNCHANGED <<mounted, backendVars, variant, connVars, pubVars, credVars, presentStep,
                 presentationExchangeState, verifyPresentationStatus,
                 verifyAttribute1, verifyAttribute2, requestPoll, posts>>

AnoncredsVerifierIsExchangeComplete(state) == state = "verified"
W3cVerifierIsExchangeComplete(state) == state = "done"

VerifierIsExchangeComplete(v, state) ==
  IF v = "anoncreds" THEN AnoncredsVerifierIsExchangeComplete(state)
                     ELSE W3cVerifierIsExchangeComplete(state)

\* isVerified as it would be if it kept a true value of an earlier response
VerifierIsVerifiedSticky(isVerified, responseData) ==
  isVerified \/ responseData.verified

\* the value the loop's isVerified holds after a response
VerifierIsVerified(isVerified, responseData) == responseData.verified

DisplayedStatus(isVerified) ==
  IF isVerified THEN "Credential Verified" ELSE "Credential Failed Verification"

getProofPresentationExchangeState(v, id, result) ==
  IF v = "anoncreds" THEN getAnoncredsProofPresentationExchangeState(id, result)
                     ELSE getW3cProofPresentationExchangeState(id, result)

VerifierPollResponse ==
  /\ variant \in InviterVariants
  /\ presPoll.pc = "await"
  /\ \E result \in SdkPresResults(variant) :
       LET responseData == getProofPresentationExchangeState(variant, presPoll.id, result)
       IN IF responseData.ok
            THEN /\ presPoll' =
                      [presPoll EXCEPT !.pc = "sleep",
                         !.flag = VerifierIsExchangeComplete(variant, responseData.state),
                         !.isVerified = VerifierIsVerified(presPoll.isVerified, responseData),
                         !.responseData = responseData,
                                   !.result = result]
                 /\ presentationExchangeState' =
                      ShownState(presentationExchangeState, responseData)
                 /\ verifyAttribute1' =
                      SetState(verifyAttribute1,
                               OrEmpty(responseData.revealedAttributes.attr1))
                 /\ verifyAttribute2' =
                      SetState(verifyAttribute2,
                               OrEmpty(responseData.revealedAttributes.attr2))
            ELSE /\ presPoll' = [presPoll EXCEPT !.pc = "aborted", !.result = result]
                 /\ UNCHANGED <<presentationExchangeState, verifyAttribute1,
                                verifyAttribute2>>
  /\ UNCHANGED <<mounted, backendVars, variant, connVars, pubVars, credVars, verifyStep, presentStep,
                 presentationExchangeId, verifyPresentationStatus, requestPoll,
                 pending, posts, gets>>

VerifierPollWake ==
  /\ variant \in InviterVariants
  /\ presPoll.pc = "sleep"
  /\ IF presPoll.flag
       THEN /\ verifyPresentationStatus' =
                 SetState(verifyPresentationStatus, DisplayedStatus(presPoll.isVerified))
            /\ verifyStep' = SetState(verifyStep, "Done")
            /\ presPoll' = [presPoll EXCEPT !.pc = "done"]
            /\ UNCHANGED gets
       ELSE /\ presPoll' = [presPoll EXCEPT !.pc = "await"]
            /\ gets' = gets \cup {Get("presentationExchangeState", presPoll.id)}
            /\ UNCHANGED <<verifyPresentationStatus, verifyStep>>
  /\ UNCHANGED <<mounted, backendVars, variant, connVars, pubVars, credVars, presentStep,
                 presentationExchangeId, presentationExchangeState,
                 verifyAttribute1, verifyAttribute2, requestPoll, pending, posts>>

\* ------------------------------------------------------------------------
\* "Present Credential" (holder)
\* ------------------------------------------------------------------------

RequestIsReceivedAtOnce(responseData) == TRUE
RequestIsReceived(responseData) == responseData.presentationExchangeId # Absent

\* pollForProofRequest: the awaited query settles
RequestPollResponse ==
  /\ requestPoll.pc = "await"
  /\ \E result \in SdkRequestResults :
       LET responseData == getW3cProofRequest(requestPoll.id, result)
       IN IF responseData.ok
            THEN requestPoll' = [requestPoll EXCEPT !.pc = "sleep",
                                   !.flag = RequestIsReceived(responseData),
                                   !.responseData = responseData,
                                   !.result = result]
            ELSE requestPoll' = [requestPoll EXCEPT !.pc = "aborted", !.result = result]
  /\ UNCHANGED <<mounted, backendVars, variant, connVars, pubVars, credVars, verifyStep, presentStep,
                 presDataVars, presPoll, pending, posts, gets>>

RequestPollWake ==
  /\ requestPoll.pc = "sleep"
  /\ IF requestPoll.flag
       THEN /\ presentationExchangeId' =
                 SetState(presentationExchangeId,
                          OrEmpty(requestPoll.responseData.presentationExchangeId))
            /\ presentStep' = SetState(presentStep, "SendProofPresentation")
            /\ requestPoll' = [requestPoll EXCEPT !.pc = "done"]
            /\ UNCHANGED gets
       ELSE /\ requestPoll' = [requestPoll EXCEPT !.pc = "await"]
            /\ gets' = gets \cup {Get("proofRequest", requestPoll.id)}
            /\ UNCHANGED <<presentationExchangeId, presentStep>>
  /\ UNCHANGED <<mounted, backendVars, variant, connVars, pubVars, credVars, verifyStep,
                 presentationExchangeState, verifyPresentationStatus,
                 verifyAttribute1, verifyAttribute2, presPoll, pending, posts>>

\* the guard of handleOnClickSendProofPresentation
SendProofPresentationClickable(step) == step = "SendProofPresentation"

OnClickSendProofPresentation ==
  /\ mounted
  /\ variant = "w3cHold"
  /\ SendProofPresentationClickable(presentStep)
  /\ presentStep' = "WaitForSendProofPresentation"
  /\ pending' = pending \cup {"sendProofPresentation"}
  /\ posts' = Append(posts, [kind |-> "sendProofPresentation",
                             presentationExchangeId |-> presentationExchangeId,
                             credentialId |-> credentialId])
  /\ UNCHANGED <<mounted, backendVars, variant, connVars, pubVars, credVars, verifyStep, presDataVars,
                 requestPoll, presPoll, gets>>

\* the effect on [step] of PresentCredential that calls
\* pollProofPresentationExchangeState
ProverPollStarts(old, new) ==
  old # new /\ new = "WaitForPresentationExchangeDoneState"

SendProofPresentationResponse ==
  /\ "sendProofPresentation" \in pending
  /\ pending' = pending \ {"sendProofPresentation"}
  /\ \E result \in SdkSendPresentationResults :
       LET responseData ==
             sendW3cProofPresentation(presentationExchangeId, credentialId, result)
       IN IF responseData.ok
            THEN /\ presentationExchangeState' =
                      SetState(presentationExchangeState, responseData.state)
                 /\ presentStep' =
                      SetState(presentStep, "WaitForPresentationExchangeDoneState")
            ELSE UNCHANGED <<presentationExchangeState, presentStep>>
  /\ LET starts == ProverPollStarts(presentStep, presentStep')
     IN /\ presPoll' = PollAfter(starts, presPoll, presentationExchangeId)
        /\ gets' = gets \cup QueryAfter(starts, "presentationExchangeState",
                                        presentationExchangeId)
  /\ UNCHANGED <<mounted, backendVars, variant, connVars, pubVars, credVars, verifyStep,
                 presentationExchangeId, verifyPresentationStatus,
                 verifyAttribute1, verifyAttribute2, requestPoll, posts>>

ProverIsExchangeComplete(state) == state = "done"

ProverPollResponse ==
  /\ variant = "w3cHold"
  /\ presPoll.pc = "await"
  /\ \E result \in SdkPresResults(variant) :
       LET responseData == getW3cProofPresentationExchangeState(presPoll.id, result)
       IN IF responseData.ok
            THEN /\ presPoll' = [presPoll EXCEPT !.pc = "sleep",
                                   !.flag = ProverIsExchangeComplete(responseData.state),
                                   !.responseData = responseData,
                                   !.result = result]
                 /\ presentationExchangeState' =
                      ShownState(presentationExchangeState, responseData)
            ELSE /\ presPoll' = [presPoll EXCEPT !.pc = "aborted", !.result = result]
                 /\ UNCHANGED presentationExchangeState
  /\ UNCHANGED <<mounted, backendVars, variant, connVars, pubVars, credVars, verifyStep, presentStep,
                 presentationExchangeId, verifyPresentationStatus,
                 verifyAttribute1, verifyAttribute2, requestPoll, pending, posts, gets>>

ProverPollWake ==
  /\ variant = "w3cHold"
  /\ presPoll.pc = "sleep"
  /\ IF presPoll.flag
       THEN /\ presentStep' = SetState(presentStep, "Done")
            /\ presPoll' = [presPoll EXCEPT !.pc = "done"]
            /\ UNCHANGED gets
       ELSE /\ presPoll' = [presPoll EXCEPT !.pc = "await"]
            /\ gets' = gets \cup {Get("presentationExchangeState", presPoll.id)}
            /\ UNCHANGED presentStep
  /\ UNCHANGED <<mounted, backendVars, variant, connVars, pubVars, credVars, verifyStep, presDataVars,
                 requestPoll, pending, posts>>

\* ------------------------------------------------------------------------
\* The flow instance as a whole
\* ------------------------------------------------------------------------

Next ==
  \/ InviterOnChangeConnectionAlias
  \/ InviterOnClickCreateInvitation
  \/ CreateInvitationResponse
  \/ InviterPollResponse
  \/ InviterPollWake
  \/ InviterPollResponse2
  \/ InviterPollWake2
  \/ InviteeOnChangeConnectionAlias
  \/ InviteeOnChangeInvitationUrl
  \/ InviteeOnClickAcceptInvitation
  \/ AcceptInvitationResponse
  \/ InviteePollResponse
  \/ InviteePollWake
  \/ OnClickPublishSchema
  \/ PublishSchemaResponse
  \/ OnClickPublishCredDef
  \/ PublishCredDefResponse
  \/ OnChangeAttribute1
  \/ OnChangeAttribute2
  \/ OnClickSendCredentialOffer
  \/ SendCredentialOfferResponse
  \/ IssuerPollResponse
  \/ IssuerPollWake
  \/ IssuerPollResponse2
  \/ IssuerPollWake2
  \/ OfferPollResponse
  \/ OfferPollWake
  \/ OnClickAcceptCredentialOffer
  \/ AcceptCredentialOfferResponse
  \/ HolderPollResponse
  \/ HolderPollWake
  \/ OnClickRequestProofPresentation
  \/ RequestProofPresentationResponse
  \/ VerifierPollResponse
  \/ VerifierPollWake
  \/ RequestPollResponse
  \/ RequestPollWake
  \/ OnClickSendProofPresentation
  \/ SendProofPresentationResponse
  \/ ProverPollResponse
  \/ ProverPollWake

\* ------------------------------------------------------------------------
\* The functions on their own: the backend serving any HTTP client, and the
\* credential exchange being started in any step
\* ------------------------------------------------------------------------

IssueSteps ==
  {"StandbyUntilReadyToIssue", "SetCredentialData", "SendCredentialOffer",
   "WaitForSendCredentialOffer", "AcceptCredential", "Done"}
AcceptOfferSteps ==
  {"StandbyUntilReadyToReceive", "WaitToReceiveCredentialOffer",
   "AcceptCredentialOffer", "WaitForAcceptCredentialOffer",
   "WaitToReceiveCredential", "Done"}

\* the backend process is started: server.ts runs up to its await of
\* acceptLedgerTaa, which awaits its first SDK call
InitCalls ==
  /\ InitFlow
  /\ server = [phase |-> "starting", taa |-> "pending",
               info |-> NoTaaAnswer, accepts |-> 0]

\* an SDK call awaited by acceptLedgerTaa is answered (server keeps, for the
\* one call of acceptLedgerTaa, the last answer of ledgerTaaGet and how many
\* times ledgerTaaAcceptPost was called)
AcceptLedgerTaaStep ==
  /\ server.phase \in {"starting", "accepting", "confirming"}
  /\ \E result \in SdkTaaResults :
       LET outcome == acceptLedgerTaa(server.phase, result)
       IN server' = [phase |-> ServerAfterTaa(outcome),
                     taa |-> IF outcome \in {"returns", "throws"}
                               THEN outcome ELSE "pending",
                     info |-> IF server.phase = "accepting" THEN server.info
                              ELSE result,
                     accepts |-> server.accepts
                                   + (IF outcome = "accepting" THEN 1 ELSE 0)]
  /\ UNCHANGED <<flowVars, mounted, call, wallet>>

\* a request reaches a route of the listening server, and its handler ends
\* with the response the cloudAgent function gives
RouteServed(response) ==
  /\ server.phase = "listening"
  /\ \E phase \in ServerAfterRoute(server.phase, response) :
       server' = [server EXCEPT !.phase = phase]

\* GET /connection/state/:connectionId, served by initRouteGetConnectionState
ServeGetConnectionState ==
  /\ \E connId \in ConnIds \cup {""}, result \in SdkConnResults :
       LET response == getConnectionState(connId, result)
       IN /\ call' = [fn |-> "getConnectionState", connectionId |-> connId,
                      response |-> response]
          /\ RouteServed(response)
  /\ UNCHANGED <<flowVars, mounted, wallet>>

\* POST /connection-invitation, served by initRoutePostConnectionInvitation
ServeCreateConnectionInvitation ==
  /\ \E bodyAlias \in BodyAliases, result \in SdkInvitationResults(ConnIds) :
       LET alias == RouteConnectionAlias(bodyAlias)
           response == createConnectionInvitation(alias, result)
       IN /\ call' = [fn |-> "createConnectionInvitation",
                      connectionAlias |-> alias,
                      request |-> createConnectionInvitationRequest(alias),
                      response |-> response]
          /\ RouteServed(response)
  /\ UNCHANGED <<flowVars, mounted, wallet>>

ServeAcceptConnectionInvitation ==
  /\ \E alias \in Texts, url \in Texts, decodes \in BOOLEAN,
        result \in SdkReceiveInvitationResults(ConnIds) :
       LET response == acceptConnectionInvitation(alias, url, decodes, result)
       IN /\ call' = [fn |-> "acceptConnectionInvitation",
                      connectionAlias |-> alias, invitationUrl |-> url,
                      decodes |-> decodes,
                      request |->
                        acceptConnectionInvitationRequest(alias, url, decodes),
                      response |-> response]
          /\ RouteServed(response)
  /\ UNCHANGED <<flowVars, mounted, wallet>>

ServeSendAnoncredsCredentialOffer ==
  /\ \E connId \in ConnIds \cup {""}, defId \in CredDefIds \cup {""},
        result \in SdkIdResults(CredExIds) :
       LET response == sendAnoncredsCredentialOffer(connId, defId, result)
       IN /\ call' = [fn |-> "sendAnoncredsCredentialOffer",
                      connectionId |-> connId, credDefId |-> defId,
                      request |->
                        sendAnoncredsCredentialOfferRequest(connId, defId),
                      response |-> response]
          /\ RouteServed(response)
  /\ UNCHANGED <<flowVars, mounted, wallet>>

\* the credential request of a holder: the wallet creates the DID it is asked
\* for, and the request submitted carries a holder DID
ServePostW3cCredentialRequest ==
  /\ \E credExId \in CredExIds \cup {""},
        didResult \in SdkIdResults(HolderDids \ wallet.created),
        result \in {Error, [ok |-> TRUE]} :
       LET request == postW3cCredentialRequestRequest(credExId, didResult)
           response == postW3cCredentialRequest(credExId, didResult, result)
           creates == /\ postW3cCredentialRequestCreatesDid(credExId)
                      /\ didResult.ok
                      /\ didResult.id # Absent
       IN /\ call' = [fn |-> "postW3cCredentialRequest",
                      credentialExchangeId |-> credExId,
                      request |-> request, response |-> response]
          /\ wallet' =
               [created |-> IF creates THEN wallet.created \cup {didResult.id}
                            ELSE wallet.created,
                submitted |-> IF request.sent
                                THEN Append(wallet.submitted, request.holder_did)
                              ELSE wallet.submitted]
          /\ RouteServed(response)
  /\ UNCHANGED <<flowVars, mounted>>

ServeSendW3cProofPresentation ==
  /\ \E presExId \in PresExIds \cup {""}, credId \in CredentialIds \cup {""},
        result \in SdkSendPresentationResults :
       LET response == sendW3cProofPresentation(presExId, credId, result)
       IN /\ call' = [fn |-> "sendW3cProofPresentation",
                      presentationExchangeId |-> presExId,
                      credentialId |-> credId,
                      request |->
                        sendW3cProofPresentationRequest(presExId, credId),
                      response |-> response]
          /\ RouteServed(response)
  /\ UNCHANGED <<flowVars, mounted, wallet>>

\* the issuer's button handler called in any step
ClickSendCredentialOffer ==
  /\ \E step \in IssueSteps :
       call' = [fn |-> "handleOnClickSendCredentialOffer", step |-> step,
                out |-> handleOnClickSendCredentialOffer(step)]
  /\ UNCHANGED <<flowVars, mounted, server, wallet>>

\* the effect on [step] of AcceptCredentialOffer, run for a render with the
\* step new after one with the step old: whether it calls
\* pollForCredentialOffer, whether it throws, and the step it leaves
AcceptCredentialOfferEffect(old, new) ==
  [sends |-> OfferPollStarts(old, new), throws |-> FALSE, step |-> new]

RunAcceptCredentialOfferEffect ==
  /\ \E old \in AcceptOfferSteps, new \in AcceptOfferSteps :
       call' = [fn |-> "AcceptCredentialOfferEffect", step |-> new,
                out |-> AcceptCredentialOfferEffect(old, new)]
  /\ UNCHANGED <<flowVars, mounted, server, wallet>>

NextCalls ==
  \/ AcceptLedgerTaaStep
  \/ ServeGetConnectionState
  \/ ServeCreateConnectionInvitation
  \/ ServeAcceptConnectionInvitation
  \/ ServeSendAnoncredsCredentialOffer
  \/ ServePostW3cCredentialRequest
  \/ ServeSendW3cProofPresentation
  \/ ClickSendCredentialOffer
  \/ RunAcceptCredentialOfferEffect

SpecCalls == InitCalls /\ [][NextCalls]_vars

\* a flow instance for as long as its route is shown
Spec == Init /\ [][Next]_vars

\* POST /api/credential-definition, served for any schema id a client sends
ServePublishAnoncredsCredDef ==
  /\ \E id \in SchemaIds \cup {""}, result \in SdkIdResults(CredDefIds) :
       LET response == publishAnoncredsCredDef(id, result)
       IN /\ call' = [fn |-> "publishAnoncredsCredDef", schemaId |-> id,
                      request |-> publishAnoncredsCredDefRequest(id),
                      response |-> response]
          /\ RouteServed(response)
  /\ UNCHANGED <<flowVars, mounted, wallet>>

\* The AnonCreds issuer's first two sections, and the backend's route for the
\* credential definition as any client may call it.
NextPublish ==
  \/ OnClickPublishSchema
  \/ PublishSchemaResponse
  \/ OnClickPublishCredDef
  \/ PublishCredDefResponse
  \/ ServePublishAnoncredsCredDef
  \/ InviterOnChangeConnectionAlias
  \/ InviterOnClickCreateInvitation
  \/ CreateInvitationResponse

SpecPublish == Init /\ [][NextPublish]_vars

\* The sections a flow starts with (the connection section and, in the
\* AnonCreds flow, the publishing of schema and credential definition), with
\* what the browser guarantees: the answer to a query that was sent arrives,
\* and a timer that was set fires (setTimeout in sleep), so a poll function
\* that can take its next step takes it.
NextConnect ==
  \/ OnClickPublishSchema
  \/ PublishSchemaResponse
  \/ OnClickPublishCredDef
  \/ PublishCredDefResponse
  \/ InviterOnChangeConnectionAlias
  \/ InviterOnClickCreateInvitation
  \/ CreateInvitationResponse
  \/ InviterPollResponse
  \/ InviterPollWake
  \/ InviterPollResponse2
  \/ InviterPollWake2
  \/ InviteeOnChangeConnectionAlias
  \/ InviteeOnChangeInvitationUrl
  \/ InviteeOnClickAcceptInvitation
  \/ AcceptInvitationResponse
  \/ InviteePollResponse
  \/ InviteePollWake

SpecConnect ==
  /\ Init /\ [][NextConnect]_vars
  /\ WF_vars(InviterPollResponse) /\ WF_vars(InviterPollWake)
  /\ WF_vars(InviterPollResponse2) /\ WF_vars(InviterPollWake2)
  /\ WF_vars(InviteePollResponse) /\ WF_vars(InviteePollWake)

\* ------------------------------------------------------------------------
\* The issuer components. Besides the two IssueCredential components of the
\* flows above there is the one that App.tsx renders
\* (components/IssueCredential.tsx); variant = "app" stands for it. Its
\* handlers are those of the AnonCreds component, and its poll function has
\* one loop only.
\* ------------------------------------------------------------------------

AppIssuerIsAccepted(state) == state = "credential_issued"

\* the awaited query of the loop settles; the answer is that of the AnonCreds
\* credential exchange query
AppIssuerPollResponse ==
  /\ variant = "app"
  /\ credPoll.pc = "await"
  /\ \E result \in SdkCredResults("anoncreds") :
       LET responseData == getAnoncredsCredentialExchangeState(credPoll.id, result)
       IN IF responseData.ok
            THEN /\ credPoll' = [credPoll EXCEPT !.pc = "sleep",
                                   !.flag = AppIssuerIsAccepted(responseData.state),
                                   !.responseData = responseData]
                 /\ credentialExchangeState' =
                      ShownState(credentialExchangeState, responseData)
            ELSE /\ credPoll' = [credPoll EXCEPT !.pc = "aborted"]
                 /\ UNCHANGED credentialExchangeState
  /\ UNCHANGED <<mounted, backendVars, variant, connVars, pubVars, issueStep, acceptOfferStep,
                 issueAttribute1, issueAttribute2, credentialExchangeId, issuerDid,
                 credentialId, holderDid, offerPoll, presVars, pending, posts, gets>>

\* the sleep ends: the next query is sent, or the loop is left and the step
\* set to Done, and the second effect of App enables the verify step
AppIssuerPollWake ==
  /\ variant = "app"
  /\ credPoll.pc = "sleep"
  /\ IF credPoll.flag
       THEN /\ issueStep' = SetState(issueStep, "Done")
            /\ verifyStep' = VerifyStepAfter(issueStep, issueStep', verifyStep)
            /\ credPoll' = [credPoll EXCEPT !.pc = "done"]
            /\ UNCHANGED gets
       ELSE /\ credPoll' = [credPoll EXCEPT !.pc = "await"]
            /\ gets' = gets \cup {Get("credentialExchangeState", credPoll.id)}
            /\ UNCHANGED <<issueStep, verifyStep>>
  /\ UNCHANGED <<mounted, backendVars, variant, connVars, pubVars, acceptOfferStep,
                 credDataVars, offerPoll, presentStep, presDataVars, requestPoll,
                 presPoll, pending, posts>>

\* App with its IssueCredential component in the step AcceptCredential, at
\* the moment the effect on [step] has called pollCredentialExchangeState:
\* the connection is established, schema and credential definition are
\* published, the offer was sent and answered with an exchange id
AppIssuing ==
  /\ variant = "app"
  /\ connectionStep = "Done"
  /\ connectionAlias = "a" /\ connectionId \in ConnIds
  /\ connectionState = "active"
  /\ invitationUrl = "url1" /\ connPoll = IdlePoll
  /\ publishStep = "Done" /\ schemaId \in SchemaIds /\ credDefId \in CredDefIds
  /\ issueStep = "AcceptCredential"
  /\ acceptOfferStep = "StandbyUntilReadyToReceive"
  /\ issueAttribute1 = "a" /\ issueAttribute2 = "a"
  /\ credentialExchangeId \in CredExIds /\ credentialExchangeState = ""
  /\ issuerDid = "" /\ credentialId = "" /\ holderDid = ""
  /\ offerPoll = IdlePoll /\ credPoll = StartPoll(credentialExchangeId)
  /\ verifyStep = "StandbyUntilReadyToVerify"
  /\ presentStep = "StandbyUntilReadyToReceive"
  /\ presentationExchangeId = "" /\ presentationExchangeState = ""
  /\ verifyPresentationStatus = ""
  /\ verifyAttribute1 = "" /\ verifyAttribute2 = ""
  /\ requestPoll = IdlePoll /\ presPoll = IdlePoll
  /\ pending = {} /\ posts = <<>>
  /\ gets = {Get("credentialExchangeState", credentialExchangeId)}
  /\ mounted = TRUE
  /\ call = NoCall
  /\ wallet = EmptyWallet
  /\ server = [phase |-> "listening", taa |-> "returns"]

\* the flows of the two other issuer components from their start
InitIssuing == (Init /\ variant \in InviterVariants) \/ AppIssuing

\* the sections of an issuer up to the issuing of the credential
NextIssuing ==
  \/ InviterOnChangeConnectionAlias
  \/ InviterOnClickCreateInvitation
  \/ CreateInvitationResponse
  \/ InviterPollResponse
  \/ InviterPollWake
  \/ InviterPollResponse2
  \/ InviterPollWake2
  \/ OnClickPublishSchema
  \/ PublishSchemaResponse
  \/ OnClickPublishCredDef
  \/ PublishCredDefResponse
  \/ OnChangeAttribute1
  \/ OnChangeAttribute2
  \/ OnClickSendCredentialOffer
  \/ SendCredentialOfferResponse
  \/ IssuerPollResponse
  \/ IssuerPollWake
  \/ IssuerPollResponse2
  \/ IssuerPollWake2
  \/ AppIssuerPollResponse
  \/ AppIssuerPollWake

\* the answer to a query that was sent arrives, and a timer that was set
\* fires: a poll function that can take its next step takes it
SpecIssuing ==
  /\ InitIssuing /\ [][NextIssuing]_vars
  /\ WF_vars(IssuerPollResponse) /\ WF_vars(IssuerPollWake)
  /\ WF_vars(IssuerPollResponse2) /\ WF_vars(IssuerPollWake2)
  /\ WF_vars(AppIssuerPollResponse) /\ WF_vars(AppIssuerPollWake)

\* The route changes (a navigation item is clicked): App renders another
\* element, and the flow component and its children are unmounted. No effect
\* of the flow has a cleanup function, so nothing else happens at this point.
\* The state of the unmounted components is discarded (it is written here as
\* the values useState starts from); the poll functions already called, and
\* the requests in flight, are not touched.
LeaveFlow ==
  /\ mounted
  /\ mounted' = FALSE
  /\ connectionStep' = "SetConnectionAlias"
  /\ connectionAlias' = "" /\ connectionId' = "" /\ connectionState' = ""
  /\ invitationUrl' = ""
  /\ publishStep' = "PublishSchema" /\ schemaId' = "" /\ credDefId' = ""
  /\ issueStep' = "StandbyUntilReadyToIssue"
  /\ acceptOfferStep' = "StandbyUntilReadyToReceive"
  /\ issueAttribute1' = "" /\ issueAttribute2' = ""
  /\ credentialExchangeId' = "" /\ credentialExchangeState' = ""
  /\ issuerDid' = "" /\ credentialId' = "" /\ holderDid' = ""
  /\ verifyStep' = "StandbyUntilReadyToVerify"
  /\ presentStep' = "StandbyUntilReadyToReceive"
  /\ presentationExchangeId' = "" /\ presentationExchangeState' = ""
  /\ verifyPresentationStatus' = ""
  /\ verifyAttribute1' = "" /\ verifyAttribute2' = ""
  /\ UNCHANGED <<variant, connPoll, offerPoll, credPoll, requestPoll, presPoll,
                 pending, posts, gets, backendVars>>

NextTeardown == Next \/ LeaveFlow

\* a flow instance that may be torn down at any time
SpecTeardown == Init /\ [][NextTeardown]_vars

\* ------------------------------------------------------------------------
\* Properties
\* ------------------------------------------------------------------------

\* C1: in every flow variant, whatever the interleaving, a credential-exchange
\* command (send credential offer, accept credential offer) or query (poll
\* for a received offer, poll the credential exchange state) has been issued
\* only if the connection step of the flow is Done.
C1_NoCredentialExchangeBeforeConnected ==
  ((\E i \in 1..Len(posts) :
       posts[i].kind \in {"sendCredentialOffer", "acceptCredentialOffer"})
   \/ (\E g \in gets : g.kind \in {"credentialOffer", "credentialExchangeState"}))
  => connectionStep = "Done"

\* a credential offer has been sent
C1_OfferSent ==
  \E i \in 1..Len(posts) : posts[i].kind = "sendCredentialOffer"

\* C2: in every flow variant a presentation-exchange command (send proof
\* request, send proof presentation) or query (poll for a received proof
\* request, poll the presentation exchange state) has been issued only if the
\* credential exchange is ready: issue step Done on the issuer side,
\* accept-offer step Done on the holder side.
C2_NoPresentationBeforeCredentialReady ==
  ((\E i \in 1..Len(posts) :
       posts[i].kind \in {"sendProofRequest", "sendProofPresentation"})
   \/ (\E g \in gets : g.kind \in {"proofRequest", "presentationExchangeState"}))
  => IF variant = "w3cHold" THEN acceptOfferStep = "Done" ELSE issueStep = "Done"

\* a proof request has been sent
C2_ProofRequestSent ==
  \E i \in 1..Len(posts) : posts[i].kind = "sendProofRequest"

\* C3: on the inviter side the connection step becomes Done only in the step
\* that follows a poll answered 'response' or 'active', and the step after
\* such an answer does make it Done (no further poll is needed); after an
\* answer with any other state the loop goes on without completing the step.
C3_InviterDoneAtFirstReadyPoll ==
  [][(variant \in InviterVariants) =>
       /\ (connectionStep # "Done" /\ connectionStep' = "Done"
             => /\ connPoll.pc = "sleep"
                /\ connPoll.responseData.state \in {"response", "active"})
       /\ (connPoll.pc = "sleep" /\ connPoll' # connPoll
             => (connectionStep' = "Done"
                   <=> connPoll.responseData.state \in {"response", "active"}))
    ]_vars

\* the inviter's step is Done after an answer 'response', 'active' not yet seen
C3_InviterDoneOnResponse ==
  /\ variant \in InviterVariants
  /\ connectionStep = "Done"
  /\ connPoll.pc = "await2"
  /\ connPoll.responseData.state = "response"

\* C4: on the invitee side the connection step becomes Done only in the step
\* that follows a poll answered exactly 'active'; after an answer 'response'
\* (or any other state) the loop goes on and the step is not completed.
C4_InviteeDoneOnlyOnActive ==
  [][(variant = "w3cHold") =>
       /\ (connectionStep # "Done" /\ connectionStep' = "Done"
             => /\ connPoll.pc = "sleep"
                /\ connPoll.responseData.state = "active")
       /\ (connPoll.pc = "sleep" /\ connPoll' # connPoll
             => (connectionStep' = "Done"
                   <=> connPoll.responseData.state = "active"))
    ]_vars

\* the invitee's step is Done, its last poll answered 'active'
C4_InviteeDoneOnActive ==
  /\ variant = "w3cHold"
  /\ connectionStep = "Done"
  /\ connPoll.pc = "done"
  /\ connPoll.responseData.state = "active"

\* C5: on the issuer side the issue step becomes Done in the step that
\* follows a poll answered with the issued or the acknowledged state, and
\* only then; in that same step the verify step is enabled
\* (RequestProofPresentation), whether or not the acknowledged state is ever
\* observed afterwards.
C5_IssueDoneWithoutAck ==
  [][(variant \in InviterVariants) =>
       LET accepted == IF variant = "anoncreds"
                         THEN {"credential_issued", "credential_acked"}
                         ELSE {"credential-issued", "done"}
       IN /\ (issueStep # "Done" /\ issueStep' = "Done"
                => /\ credPoll.pc = "sleep"
                   /\ credPoll.responseData.state \in accepted)
          /\ (credPoll.pc = "sleep" /\ credPoll' # credPoll
                /\ credPoll.responseData.state \in accepted
                => /\ issueStep' = "Done"
                   /\ verifyStep' = "RequestProofPresentation")
    ]_vars

\* a proof request has been sent while the only answer that completed the
\* issue step was the issued state: no poll has observed the acknowledgement
C5_VerifyingWithoutAck ==
  /\ variant \in InviterVariants
  /\ credPoll.pc = "await2"
  /\ credPoll.responseData.state \in {"credential_issued", "credential-issued"}
  /\ \E i \in 1..Len(posts) : posts[i].kind = "sendProofRequest"

\* C6: the verifier's displayed status ('Credential Verified' / 'Credential
\* Failed Verification') is set only once a poll has answered with the
\* terminal state, and it is the status for the verified flag of that
\* terminal answer, not of an earlier one (AnonCreds verifier).
C6_StatusFromTerminalResponse ==
  variant = "anoncreds" /\ verifyPresentationStatus # ""
  => /\ presPoll.responseData.state = "verified"
     /\ verifyPresentationStatus
          = (IF presPoll.responseData.verified
               THEN "Credential Verified" ELSE "Credential Failed Verification")

\* a failed verification is displayed, the terminal answer having been built
\* from a record the Agent marks as not verified
C6_FailedVerificationDisplayed ==
  /\ variant = "anoncreds"
  /\ verifyStep = "Done"
  /\ verifyPresentationStatus = "Credential Failed Verification"
  /\ presPoll.result.verified = "false"

C9_NoCandidatesKeepsHolderWaiting ==
  [][/\ (offerPoll.pc = "await" /\ offerPoll'.pc # "await"
           /\ offerPoll'.result.ok /\ Len(offerPoll'.result.results) = 0
           => /\ offerPoll'.pc = "sleep"
              /\ offerPoll'.responseData.ok
              /\ offerPoll'.responseData.credentialExchangeId = Absent
              /\ ~offerPoll'.responseData.credentialData.defined)
     /\ (offerPoll.pc = "sleep" /\ offerPoll' # offerPoll
           /\ offerPoll.responseData.credentialExchangeId = Absent
           => /\ offerPoll'.pc = "await"
              /\ acceptOfferStep' = "WaitToReceiveCredentialOffer")
     /\ (acceptOfferStep = "WaitToReceiveCredentialOffer"
           /\ acceptOfferStep' # acceptOfferStep
           => /\ offerPoll.pc = "sleep"
              /\ offerPoll.responseData.credentialExchangeId # Absent)
     /\ (requestPoll.pc = "await" /\ requestPoll'.pc # "await"
           /\ requestPoll'.result.ok /\ Len(requestPoll'.result.results) = 0
           => /\ requestPoll'.pc = "sleep"
              /\ requestPoll'.responseData.ok
              /\ requestPoll'.responseData.presentationExchangeId = Absent)
     /\ (requestPoll.pc = "sleep" /\ requestPoll' # requestPoll
           /\ requestPoll.responseData.presentationExchangeId = Absent
           => /\ requestPoll'.pc = "await"
              /\ presentStep' = "WaitToReceiveProofRequest")
     /\ (presentStep = "WaitToReceiveProofRequest"
           /\ presentStep' # presentStep
           => /\ requestPoll.pc = "sleep"
              /\ requestPoll.responseData.presentationExchangeId # Absent)
    ]_vars

\* after an answer built from no candidate the holder is still waiting for
\* an offer, with the next query sent
C9_StillWaitingForOffer ==
  /\ acceptOfferStep = "WaitToReceiveCredentialOffer"
  /\ offerPoll.pc = "await"
  /\ offerPoll.result.ok
  /\ Len(offerPoll.result.results) = 0

\* C10 as stated: a failed state query does not end a poll loop (the loop
\* would send its next query after the interval): no loop is ever left
\* because a query of it failed.
C10_FailedQueryDoesNotAbort ==
  /\ connPoll.pc # "aborted"
  /\ offerPoll.pc # "aborted"
  /\ credPoll.pc # "aborted"
  /\ requestPoll.pc # "aborted"
  /\ presPoll.pc # "aborted"

\* C11 (as claimed): once the flow instance is torn down its poll loops are
\* cancelled, i.e. no poll function of the instance sends a state query any
\* more. The code has no cancellation: the loops go on querying.
C11_NoQueryAfterTeardown ==
  [][(~mounted) =>
       /\ ~SendsQuery(connPoll, connPoll')
       /\ ~SendsQuery(offerPoll, offerPoll')
       /\ ~SendsQuery(credPoll, credPoll')
       /\ ~SendsQuery(requestPoll, requestPoll')
       /\ ~SendsQuery(presPoll, presPoll')
  ]_vars

\* C12: there is at most one poll loop per exchange (no poll function is
\* called a second time), and a loop sends a query only when none of its
\* queries is in flight: from its start or after the sleep that follows an
\* answer.
C12_OnePollLoopPerExchange ==
  [][\A p \in {<<connPoll, connPoll'>>, <<offerPoll, offerPoll'>>,
               <<credPoll, credPoll'>>, <<requestPoll, requestPoll'>>,
               <<presPoll, presPoll'>>} :
        /\ p[2].runs <= 1
        /\ SendsQuery(p[1], p[2]) => p[1].pc \in {"idle", "sleep", "sleep2"}
  ]_vars

\* two exchanges are polled at the same time, each by its one loop: the
\* connection loop is in its second phase with a query in flight, and the
\* credential exchange loop has sent a further query after an answer
C12_TwoLoopsEachWithOneQuery ==
  /\ connPoll.runs = 1 /\ connPoll.pc = "await2"
  /\ credPoll.runs = 1 /\ credPoll.pc = "await" /\ credPoll.responseData.ok

\* C13: every successful answer to a poll is shown as the exchange state,
\* the answer that satisfies the loop's done-predicate included, and the
\* completion of an exchange is signalled once: the loop that leaves on its
\* done flag finds the step not yet Done and sets it to Done, and a step that
\* is Done stays Done.
C13_ResponsesShownAndDoneOnce ==
  [][/\ (connPoll.pc \in {"await", "await2"} /\ connPoll'.pc \in {"sleep", "sleep2"})
          => connectionState' = connPoll'.responseData.state
     /\ (credPoll.pc \in {"await", "await2"} /\ credPoll'.pc \in {"sleep", "sleep2"})
          => credentialExchangeState' = credPoll'.responseData.state
     /\ (presPoll.pc = "await" /\ presPoll'.pc = "sleep")
          => presentationExchangeState' = presPoll'.responseData.state
     /\ (connPoll.pc = "sleep" /\ connPoll.flag /\ connPoll' # connPoll)
          => connectionStep # "Done" /\ connectionStep' = "Done"
     /\ (credPoll.pc = "sleep" /\ credPoll.flag /\ credPoll' # credPoll)
          => IF variant = "w3cHold"
               THEN acceptOfferStep # "Done" /\ acceptOfferStep' = "Done"
               ELSE issueStep # "Done" /\ issueStep' = "Done"
     /\ (presPoll.pc = "sleep" /\ presPoll.flag /\ presPoll' # presPoll)
          => IF variant = "w3cHold"
               THEN presentStep # "Done" /\ presentStep' = "Done"
               ELSE verifyStep # "Done" /\ verifyStep' = "Done"
     /\ connectionStep = "Done" => connectionStep' = "Done"
     /\ issueStep = "Done" => issueStep' = "Done"
     /\ acceptOfferStep = "Done" => acceptOfferStep' = "Done"
     /\ verifyStep = "Done" => verifyStep' = "Done"
     /\ presentStep = "Done" => presentStep' = "Done"
  ]_vars

\* the holder's connection and credential exchange have both completed, and
\* the states that completed them are the ones shown
C13_CompletingStatesShown ==
  /\ variant = "w3cHold"
  /\ connectionStep = "Done" /\ connectionState = "active"
  /\ acceptOfferStep = "Done" /\ credentialExchangeState = "done"
  /\ credPoll.pc = "done"

\* C14: a flow instance sends each of its initiating commands (create or
\* accept invitation, publish, credential offer or request, proof request or
\* presentation) at most once.
C14_EachCommandSentAtMostOnce ==
  \A i, j \in 1..Len(posts) : posts[i].kind = posts[j].kind => i = j

\* the AnonCreds flow has sent all five of its commands and all were answered
C14_AllCommandsSent ==
  /\ variant = "anoncreds"
  /\ Len(posts) = 5
  /\ pending = {}
  /\ verifyStep = "PresentProof"

\* C15: a command whose POST fails is not sent again and its operation is
\* aborted. When the POST of a create-invitation, credential-offer or
\* proof-request command settles, nothing is sent again, and either the
\* command succeeded (a non-empty id is recorded, the step is the polling step
\* and the poll function was called with that id) or nothing of the instance
\* changes: no id, the step still the waiting one, no poll. An instance whose
\* command failed stays like that.
C15_FailedCommandAborts ==
  [][/\ ("createInvitation" \in pending /\ "createInvitation" \notin pending')
          => /\ posts' = posts
             /\ \/ /\ connectionStep' = "AcceptInvitation"
                   /\ connectionId' \in ConnIds
                   /\ connPoll' = StartPoll(connectionId')
                \/ /\ connectionStep' = "WaitForInvitationCreation"
                   /\ UNCHANGED <<connectionId, invitationUrl, connPoll, gets>>
     /\ ("sendCredentialOffer" \in pending /\ "sendCredentialOffer" \notin pending')
          => /\ posts' = posts
             /\ \/ /\ issueStep' = "AcceptCredential"
                   /\ credentialExchangeId' \in CredExIds
                   /\ credPoll' = StartPoll(credentialExchangeId')
                \/ /\ issueStep' = "WaitForSendCredentialOffer"
                   /\ UNCHANGED <<credentialExchangeId, issuerDid, credPoll, gets>>
     /\ ("sendProofRequest" \in pending /\ "sendProofRequest" \notin pending')
          => /\ posts' = posts
             /\ \/ /\ verifyStep' = "PresentProof"
                   /\ presentationExchangeId' \in PresExIds
                   /\ presPoll' = StartPoll(presentationExchangeId')
                \/ /\ verifyStep' = "WaitForRequestProofPresentation"
                   /\ UNCHANGED <<presentationExchangeId, presPoll, gets>>
     /\ (connectionStep = "WaitForInvitationCreation" /\ "createInvitation" \notin pending)
          => /\ connectionId' = "" /\ connPoll'.pc = "idle"
             /\ connectionStep' = connectionStep
     /\ (issueStep = "WaitForSendCredentialOffer" /\ "sendCredentialOffer" \notin pending)
          => /\ credentialExchangeId' = "" /\ credPoll'.pc = "idle"
             /\ issueStep' = issueStep
     /\ (verifyStep = "WaitForRequestProofPresentation" /\ "sendProofRequest" \notin pending)
          => /\ presentationExchangeId' = "" /\ presPoll'.pc = "idle"
             /\ verifyStep' = verifyStep
  ]_vars

\* the create-invitation command has failed: its POST was answered, the step
\* is still the waiting one, no connection id is recorded and
\* pollConnectionState was not called
C15_InvitationCreationFailed ==
  /\ connectionStep = "WaitForInvitationCreation"
  /\ "createInvitation" \notin pending
  /\ Len(posts) = 1
  /\ connectionId = "" /\ connPoll = IdlePoll /\ gets = {}

\* C16 (amended): an attempt to start the credential exchange in a step other
\* than the one that allows it, before the connection is ready in particular,
\* is ignored without an error: the issuer's click handler and the holder's
\* effect send nothing, throw nothing and leave the step as it is.
C16_EarlyAttemptIgnored ==
  /\ (call.fn = "handleOnClickSendCredentialOffer"
        /\ call.step # "SendCredentialOffer")
       => ~call.out.sends /\ ~call.out.throws /\ call.out.step = call.step
  /\ (call.fn = "AcceptCredentialOfferEffect"
        /\ call.step # "WaitToReceiveCredentialOffer")
       => ~call.out.sends /\ ~call.out.throws /\ call.out.step = call.step

\* the issuer's handler was called while the flow still waits for the connection
C16_OfferClickedBeforeReady ==
  /\ call.fn = "handleOnClickSendCredentialOffer"
  /\ call.step = "StandbyUntilReadyToIssue"
  /\ ~call.out.sends

\* C16 (as claimed): the attempt before the connection is ready raises a
\* guard error and the exchange is not started.
C16_EarlyAttemptRaisesError ==
  (/\ call.fn \in {"handleOnClickSendCredentialOffer", "AcceptCredentialOfferEffect"}
   /\ call.step \in {"StandbyUntilReadyToIssue", "StandbyUntilReadyToReceive"})
    => call.out.throws /\ ~call.out.sends

\* C17: acceptConnectionInvitation given an invitation that cannot be decoded
\* fails: it sends no receive-invitation request to the Agent and returns no
\* connection id.
C17_UndecodableInvitationRejected ==
  (call.fn = "acceptConnectionInvitation" /\ ~call.decodes)
    => ~call.request.sent /\ ~call.response.ok

\* an invitation text that does not decode was submitted with an alias
C17_UndecodableInvitationSubmitted ==
  /\ call.fn = "acceptConnectionInvitation"
  /\ ~call.decodes /\ call.invitationUrl = "a" /\ call.connectionAlias = "a"

\* C18 (as claimed): createConnectionInvitation with an empty alias fails and
\* creates no invitation. The code has no check of the alias.
C18_EmptyAliasRejected ==
  (call.fn = "createConnectionInvitation" /\ call.connectionAlias = "")
    => ~call.request.sent /\ ~call.response.ok

\* C19: sendAnoncredsCredentialOffer with an empty connection id or an empty
\* credential definition id fails and sends no offer to the Agent.
C19_OfferWithoutIdsRejected ==
  (call.fn = "sendAnoncredsCredentialOffer"
     /\ (call.connectionId = "" \/ call.credDefId = ""))
    => ~call.request.sent /\ ~call.response.ok

\* an offer was asked for with a connection id but no credential definition id
C19_OfferWithoutCredDefSubmitted ==
  /\ call.fn = "sendAnoncredsCredentialOffer"
  /\ call.connectionId \in ConnIds /\ call.credDefId = ""

\* C20 (as claimed): sendW3cProofPresentation with an empty presentation
\* exchange id or an empty credential id fails and sends no presentation.
\* The code checks the presentation exchange id only.
C20_PresentationWithoutIdsRejected ==
  (call.fn = "sendW3cProofPresentation"
     /\ (call.presentationExchangeId = "" \/ call.credentialId = ""))
    => ~call.request.sent /\ ~call.response.ok


\* C21: whenever a credential request is submitted, the holder DID in it was
\* created by the wallet during that same call (the wallet did not hold it
\* before the call and holds it after), and it was not submitted in any
\* earlier credential request.
C21_FreshHolderDidPerRequest ==
  [][(wallet'.submitted # wallet.submitted)
       => LET did == call'.request.holder_did
          IN /\ call'.fn = "postW3cCredentialRequest"
             /\ wallet'.submitted = Append(wallet.submitted, did)
             /\ did \notin wallet.created
             /\ did \in wallet'.created
             /\ \A i \in 1..Len(wallet.submitted) : wallet.submitted[i] # did
    ]_vars

\* three credentials have been requested, the last one with success
C21_ThreeCredentialsRequested ==
  /\ Len(wallet.submitted) = 3
  /\ call.fn = "postW3cCredentialRequest"
  /\ call.response.ok


\* C22: the payload fields the consumer holds only ever fill up: once a
\* revealed attribute shown by the verifier, or the credential id stored by
\* the holder, is non-empty, no later step (no later poll result) makes it
\* empty again.
C22_PayloadNeverReset ==
  [][/\ verifyAttribute1 # "" => verifyAttribute1' # ""
     /\ verifyAttribute2 # "" => verifyAttribute2' # ""
     /\ credentialId # "" => credentialId' # ""
    ]_vars


\* the fixed order of the states of a connection, and of a credential
\* exchange as its issuer sees it
ConnStateOrder == <<"invitation", "request", "response", "active">>
CredStateOrder(v) ==
  IF v = "anoncreds"
    THEN <<"offer_sent", "request_received", "credential_issued", "credential_acked">>
    ELSE <<"offer-sent", "request-received", "credential-issued", "done">>

\* the place of a state in an order; 0 for the empty state shown at first
StateRank(order, state) ==
  IF \E i \in 1..Len(order) : order[i] = state
    THEN CHOOSE i \in 1..Len(order) : order[i] = state
    ELSE 0

\* C23: the state an inviter or issuer component has accepted (the one it
\* shows) never goes back along the fixed order of its kind: an answer with a
\* state earlier than the one accepted before is not accepted.
C23_OutOfOrderStateNotAccepted ==
  [][/\ StateRank(ConnStateOrder, connectionState')
          >= StateRank(ConnStateOrder, connectionState)
     /\ variant \in InviterVariants
          => StateRank(CredStateOrder(variant), credentialExchangeState')
               >= StateRank(CredStateOrder(variant), credentialExchangeState)
    ]_vars


\* C24: the id of an exchange is immutable once assigned: when the connection
\* id, the credential exchange id or the presentation exchange id of a flow
\* instance is non-empty, no step of the instance changes it.
C24_ExchangeIdsImmutable ==
  [][/\ connectionId # "" => connectionId' = connectionId
     /\ credentialExchangeId # "" => credentialExchangeId' = credentialExchangeId
     /\ presentationExchangeId # ""
          => presentationExchangeId' = presentationExchangeId
    ]_vars

\* all three ids are assigned and the last exchange has been polled to its end
C24_AllIdsAssigned ==
  /\ connectionId # "" /\ credentialExchangeId # ""
  /\ presentationExchangeId # ""
  /\ presPoll.pc = "done"


\* an answer's revealedAttributes hold no attribute
NoAttributes(revealedAttributes) ==
  revealedAttributes.attr1 = Absent /\ revealedAttributes.attr2 = Absent

\* C25 (as the code has it): in the answer to a W3C presentation-exchange
\* state query, revealedAttributes hold the attributes of the Agent's record
\* when the record's state is 'presentation-received' or 'done', and are
\* empty for every other state; in the answer to an AnonCreds query they
\* hold the attributes of the record's presentation whatever its state.
C25_AttributesOnceReceived ==
  presPoll.result.ok /\ presPoll.pc # "aborted"
  => LET answer == presPoll.responseData
         record == presPoll.result
     IN IF variant = "anoncreds"
             \/ answer.state \in {"presentation-received", "done"}
          THEN answer.revealedAttributes
                 = [attr1 |-> record.attr1, attr2 |-> record.attr2]
          ELSE NoAttributes(answer.revealedAttributes)

\* the W3C query answered with an attribute for a record in the state
\* 'presentation-received'
C25_AttributeAtPresentationReceived ==
  /\ variant = "w3cIssue"
  /\ presPoll.pc = "sleep"
  /\ presPoll.result.ok
  /\ presPoll.responseData.state = "presentation-received"
  /\ presPoll.responseData.revealedAttributes.attr1 = "a"

\* C25 as stated: revealedAttributes are empty in every answer whose state is
\* not the terminal one ('done'; 'verified' for AnonCreds).
C25_AttributesOnlyAtTerminal ==
  presPoll.result.ok /\ presPoll.pc # "aborted"
  => (presPoll.responseData.state
        # (IF variant = "anoncreds" THEN "verified" ELSE "done")
      => NoAttributes(presPoll.responseData.revealedAttributes))


\* C26: the failure of an Agent call made for one exchange does not end the
\* backend process: a server that is listening is still listening after any
\* request it is sent, so that the requests of other flow instances are
\* served.
C26_FailedCallLeavesServerListening ==
  [][server.phase = "listening" => server'.phase = "listening"]_vars


\* the state a flow component and its children are created with: every step
\* at its first value, every id and every shown value empty
FreshInstance ==
  /\ connectionStep = "SetConnectionAlias"
  /\ connectionAlias = "" /\ connectionId = "" /\ connectionState = ""
  /\ invitationUrl = ""
  /\ publishStep = "PublishSchema" /\ schemaId = "" /\ credDefId = ""
  /\ issueStep = "StandbyUntilReadyToIssue"
  /\ acceptOfferStep = "StandbyUntilReadyToReceive"
  /\ issueAttribute1 = "" /\ issueAttribute2 = ""
  /\ credentialExchangeId = "" /\ credentialExchangeState = ""
  /\ issuerDid = "" /\ credentialId = "" /\ holderDid = ""
  /\ verifyStep = "StandbyUntilReadyToVerify"
  /\ presentStep = "StandbyUntilReadyToReceive"
  /\ presentationExchangeId = "" /\ presentationExchangeState = ""
  /\ verifyPresentationStatus = ""
  /\ verifyAttribute1 = "" /\ verifyAttribute2 = ""

C28_NoRouteServedBeforeTaa ==
  /\ [](server.phase = "listening" => server.taa = "returns")
  /\ []("response" \in DOMAIN call => server.taa = "returns")
  /\ [](server.taa = "throws" => [](server.phase # "listening"))

\* the TAA had to be accepted (three SDK calls), and a state query has been
\* served
C28_QueryServedAfterTaa ==
  /\ server.taa = "returns"
  /\ server.phase = "listening"
  /\ call.fn = "getConnectionState"
  /\ call.response.ok


\* the id of its exchange that a flow instance holds for a kind of query
IdHeldFor(kind) ==
  IF kind \in {"connectionState", "credentialOffer", "proofRequest"}
    THEN connectionId
  ELSE IF kind = "credentialExchangeState" THEN credentialExchangeId
  ELSE presentationExchangeId

\* C29: every state query and every follow-up command of a flow instance
\* carries the id that the Agent assigned in the response before it: the id
\* in it is not empty and is the id the instance holds for that exchange.
C29_RequestsCarryAssignedId ==
  /\ \A g \in gets : g.id # "" /\ g.id = IdHeldFor(g.kind)
  /\ \A i \in 1..Len(posts) :
       LET post == posts[i]
       IN /\ post.kind \in {"sendCredentialOffer", "sendProofRequest"}
               => post.connectionId # "" /\ post.connectionId = connectionId
          /\ post.kind = "acceptCredentialOffer"
               => /\ post.credentialExchangeId # ""
                  /\ post.credentialExchangeId = credentialExchangeId
          /\ post.kind = "sendProofPresentation"
               => /\ post.presentationExchangeId # ""
                  /\ post.presentationExchangeId = presentationExchangeId

\* the holder has sent its two follow-up commands and polled all of its
\* exchanges
C29_HolderCommandsAndQueriesSent ==
  /\ variant = "w3cHold"
  /\ \E i \in 1..Len(posts) : posts[i].kind = "sendProofPresentation"
  /\ \E g \in gets : g.kind = "presentationExchangeState"
  /\ \E g \in gets : g.kind = "credentialExchangeState"
  /\ \E g \in gets : g.kind = "connectionState"


\* a poll function is in its second, display-only loop
DisplayOnly(poll) == poll.pc \in {"await2", "sleep2"}

\* C30: the polling that goes on after the Done step (the inviter's until
\* 'active', the issuer's until the credential is acknowledged) changes only
\* the state shown: a step of it leaves every step, every stored id and every
\* command as they are. It sends a further query only if the last answer was
\* not the final state, and once the final state has been observed the poll
\* function has ended and sends nothing more.
C30_DisplayOnlyPollingChangesOnlyShownState ==
  [][/\ (DisplayOnly(connPoll) /\ connPoll' # connPoll)
          => /\ UNCHANGED <<connectionStep, connectionAlias, connectionId,
                            invitationUrl, pubVars, issueStep, acceptOfferStep,
                            credDataVars, verifyStep, presentStep, presDataVars,
                            pending, posts>>
             /\ SendsQuery(connPoll, connPoll')
                  => connPoll.responseData.state # "active"
             /\ (connPoll.pc = "sleep2" /\ connPoll.responseData.state = "active")
                  => connPoll'.pc = "done"
     /\ (variant \in InviterVariants /\ DisplayOnly(credPoll) /\ credPoll' # credPoll)
          => /\ UNCHANGED <<connVars, pubVars, issueStep, acceptOfferStep,
                            issueAttribute1, issueAttribute2,
                            credentialExchangeId, issuerDid, credentialId,
                            holderDid, verifyStep, presentStep, presDataVars,
                            pending, posts>>
             /\ SendsQuery(credPoll, credPoll')
                  => credPoll.responseData.state # AckedState(variant)
             /\ (credPoll.pc = "sleep2"
                   /\ credPoll.responseData.state = AckedState(variant))
                  => credPoll'.pc = "done"
     /\ connPoll.pc = "done" => connPoll' = connPoll
     /\ credPoll.pc = "done" => credPoll' = credPoll
    ]_vars

\* both display-only loops have ended on their final state, the connection's
\* after an answer 'response' and the credential exchange's after an answer
\* that was not yet the acknowledgement
C30_BothDisplayLoopsEnded ==
  /\ variant \in InviterVariants
  /\ connPoll.pc = "done" /\ connectionState = "active"
  /\ credPoll.pc = "done" /\ credentialExchangeState = AckedState(variant)
  /\ connectionStep = "Done" /\ issueStep = "Done"


\* C31: if no connection-state query fails, and from some point on every
\* answer the poll function holds reports the connection as 'active', then
\* once pollConnectionState has been called it eventually returns with the
\* connection step Done, for the inviter and for the invitee.
C31_ConnectionPollTerminates ==
  (/\ [](connPoll.pc # "aborted")
   /\ <>[](connPoll.pc \in {"sleep", "sleep2"}
             => connPoll.responseData.state = "active"))
  => [](connPoll.pc # "idle"
          => <>(connPoll.pc = "done" /\ connectionStep = "Done"))

\* the inviter's poll function has returned: its first loop ended on an
\* answer 'response', its second on 'active'
C31_InviterPollReturned ==
  /\ variant \in InviterVariants
  /\ connPoll.pc = "done"
  /\ connectionStep = "Done"
  /\ connPoll.responseData.state = "active"


\* the acknowledged and the issued state, as the issuer component on screen
\* names them
IssuerAckedState == IF variant = "w3cIssue" THEN "done" ELSE "credential_acked"
IssuerIssuedState ==
  IF variant = "w3cIssue" THEN "credential-issued" ELSE "credential_issued"

\* C32: if no query of the issuer's poll fails, no answer it holds ever
\* reports the issued state, and from some point on every answer it holds
\* reports the acknowledged state, then once pollCredentialExchangeState has
\* been called the issue step eventually becomes Done, in each of the issuer
\* components.
C32_IssueDoneWhenIssuedStateSkipped ==
  (/\ [](credPoll.pc # "aborted")
   /\ [](credPoll.pc \in {"sleep", "sleep2"}
           => credPoll.responseData.state # IssuerIssuedState)
   /\ <>[](credPoll.pc \in {"sleep", "sleep2"}
             => credPoll.responseData.state = IssuerAckedState))
  => [](credPoll.pc # "idle" => <>(issueStep = "Done"))

\* the candidates of the answer the poll function holds, if it holds one
Candidates(poll) == IF poll.result.ok THEN poll.result.results ELSE <<>>

\* C33: when the Agent reports more than one candidate exchange for the
\* connection, getW3cCredentialOffer and getW3cProofRequest return the
\* exchange id of none of them, and the holder's step advances to
\* AcceptCredentialOffer or to SendProofPresentation only on an answer made
\* from exactly one candidate.
C33_ManyCandidatesSelectNone ==
  /\ [](/\ (Len(Candidates(offerPoll)) >= 2 /\ offerPoll.pc # "aborted"
              => /\ \A i \in 1..Len(Candidates(offerPoll)) :
                      offerPoll.responseData.credentialExchangeId
                        # Candidates(offerPoll)[i].cred_ex_id
                 /\ ~offerPoll.flag)
        /\ (Len(Candidates(requestPoll)) >= 2 /\ requestPoll.pc # "aborted"
              => /\ \A i \in 1..Len(Candidates(requestPoll)) :
                      requestPoll.responseData.presentationExchangeId
                        # Candidates(requestPoll)[i].pres_ex_id
                 /\ ~requestPoll.flag))
  /\ [][/\ (acceptOfferStep # "AcceptCredentialOffer"
              /\ acceptOfferStep' = "AcceptCredentialOffer"
              => Len(Candidates(offerPoll)) = 1)
        /\ (presentStep # "SendProofPresentation"
              /\ presentStep' = "SendProofPresentation"
              => Len(Candidates(requestPoll)) = 1)]_vars

\* the proof request query was answered from two candidates, the sleep has
\* ended, and the holder still waits for a proof request and polls again
C33_TwoRequestsReportedAndStillWaiting ==
  /\ requestPoll.pc = "await"
  /\ Len(Candidates(requestPoll)) = 2
  /\ presentStep = "WaitToReceiveProofRequest"
  /\ presentationExchangeId = ""

\* the connection step and the publish step are both Done
BothDone(cStep, pStep) == cStep = "Done" /\ pStep = "Done"

\* C34: in the AnonCreds flow the issue step is off standby only while the
\* connection step and the publish step are both Done; it leaves standby, for
\* SetCredentialData, in the very step in which the second of the two turns
\* Done, whichever that is; it never returns to standby; and once it is past
\* standby it goes back to SetCredentialData only by an edit that empties a
\* credential attribute while the data is still editable, never by the
\* flow's effect.
C34_IssueEnabledOnceBothDone ==
  /\ [](variant = "anoncreds" /\ issueStep # "StandbyUntilReadyToIssue"
          => BothDone(connectionStep, publishStep))
  /\ [][variant = "anoncreds"
          => /\ (~BothDone(connectionStep, publishStep)
                   /\ BothDone(connectionStep', publishStep')
                   => /\ issueStep = "StandbyUntilReadyToIssue"
                      /\ issueStep' = "SetCredentialData")
             /\ (issueStep = "StandbyUntilReadyToIssue" /\ issueStep' # issueStep
                   => /\ issueStep' = "SetCredentialData"
                      /\ ~BothDone(connectionStep, publishStep)
                      /\ BothDone(connectionStep', publishStep'))
             /\ (issueStep # "StandbyUntilReadyToIssue"
                   => issueStep' # "StandbyUntilReadyToIssue")
             /\ (issueStep \notin {"StandbyUntilReadyToIssue", "SetCredentialData"}
                   /\ issueStep' = "SetCredentialData"
                   => /\ issueStep = "SendCredentialOffer"
                      /\ (issueAttribute1' = "" \/ issueAttribute2' = "")
                      /\ <<issueAttribute1, issueAttribute2>>'
                           # <<issueAttribute1, issueAttribute2>>
                      /\ <<connectionStep, publishStep>>'
                           = <<connectionStep, publishStep>>)]_vars

\* AnonCreds flow: the offer has been sent and the issuer waits for the
\* holder, while the inviter's second loop still polls the connection
C34_ProgressedWhileConnectionStillPolled ==
  /\ variant = "anoncreds"
  /\ issueStep = "AcceptCredential"
  /\ connPoll.pc \in {"await2", "sleep2"}
  /\ BothDone(connectionStep, publishStep)

\* the positions in posts of the commands of a kind
PostsOf(kind) == {i \in 1..Len(posts) : posts[i].kind = kind}

\* C35: a publication of the credential definition is requested only after
\* the publication of the schema of the same flow instance was requested and
\* has succeeded, and it carries the schema id that publication returned;
\* and publishAnoncredsCredDef called with an empty schema id fails without
\* sending a request, while a request it sends carries the schema id it was
\* called with.
C35_CredDefAfterSchema ==
  /\ \A i \in PostsOf("publishCredDef") :
       /\ \E j \in PostsOf("publishSchema") : j < i
       /\ "publishSchema" \notin pending
       /\ schemaId \in SchemaIds
       /\ posts[i].schemaId = schemaId
  /\ (call.fn = "publishAnoncredsCredDef"
        => /\ (call.schemaId = "" => ~call.request.sent /\ ~call.response.ok)
           /\ (call.request.sent => call.request.schema_id = call.schemaId))

\* the flow has requested the credential definition for its schema, and the
\* backend function has been called with an empty schema id
C35_CredDefRequestedAndEmptyIdRefused ==
  /\ PostsOf("publishCredDef") # {}
  /\ call.fn = "publishAnoncredsCredDef"
  /\ call.schemaId = ""

\* the ledger's answer says that the TAA is accepted
TaaReportedAccepted(info) == info.ok /\ info.result.defined /\ info.result.taa_accepted

\* the ledger's answer says that the TAA is not required
TaaReportedNotRequired(info) ==
  info.ok /\ info.result.defined /\ ~info.result.taa_required

\* C36: acceptLedgerTaa returns only if the ledger's last answer says that
\* the TAA is not required or that it is accepted; it calls
\* ledgerTaaAcceptPost at most once in a call, and only on an answer that
\* says the TAA is required and not accepted; and it throws when the answer
\* that follows the accept request does not report the acceptance.
C36_TaaAcceptedOrNotRequiredOnReturn ==
  /\ [](/\ (server.taa = "returns"
              => \/ TaaReportedNotRequired(server.info)
                 \/ TaaReportedAccepted(server.info))
        /\ server.accepts <= 1)
  /\ [][/\ (server'.accepts # server.accepts
              => /\ server.accepts = 0
                 /\ server.phase = "starting"
                 /\ server'.info.ok /\ server'.info.result.defined
                 /\ server'.info.result.taa_required
                 /\ ~server'.info.result.taa_accepted)
        /\ (server.phase = "confirming" /\ server' # server
              => /\ server.accepts = 1
                 /\ server'.taa = (IF TaaReportedAccepted(server'.info)
                                     THEN "returns" ELSE "throws"))]_vars

\* the accept request was sent, and the ledger's next answer still does not
\* report the TAA as accepted: acceptLedgerTaa has thrown
C36_AcceptanceNotConfirmed ==
  /\ server.accepts = 1
  /\ server.info.ok /\ server.info.result.defined
  /\ ~server.info.result.taa_accepted
  /\ server.taa = "throws"
  /\ server.phase = "exited"

InviterEditableSteps == {"SetConnectionAlias", "CreateInvitation"}

\* C37: while the inviter's alias is editable, the step is CreateInvitation
\* exactly when the alias is not empty; while the invitee's alias and URL are
\* editable, the step is AcceptInvitation exactly when neither is empty; and
\* no create-invitation command was sent with an empty alias, no
\* accept-invitation command with an empty alias or an empty URL.
C37_CommandEnabledIffInputComplete ==
  /\ (variant \in InviterVariants /\ connectionStep \in InviterEditableSteps
        => (connectionStep = "CreateInvitation" <=> connectionAlias # ""))
  /\ (variant = "w3cHold" /\ connectionStep \in InviteeEditableSteps
        => (connectionStep = "AcceptInvitation"
              <=> connectionAlias # "" /\ invitationUrl # ""))
  /\ \A i \in 1..Len(posts) :
       /\ (posts[i].kind = "createInvitation" => posts[i].alias # "")
       /\ (posts[i].kind = "acceptInvitation"
             => posts[i].alias # "" /\ posts[i].invitationUrl # "")

\* the invitee entered a URL and then emptied the alias: the button is
\* disabled again
C37_AliasEmptiedAfterUrlEntered ==
  /\ variant = "w3cHold"
  /\ connectionStep = "SetConnectionAlias"
  /\ connectionAlias = ""
  /\ invitationUrl # ""

\* the steps of a section after its command was issued
InviterCommandIssued == {"WaitForInvitationCreation", "AcceptInvitation", "Done"}
InviteeCommandIssued == {"WaitForInvitationAcceptance", "WaitForConnectionActive", "Done"}
IssuerCommandIssued == {"WaitForSendCredentialOffer", "AcceptCredential", "Done"}

\* C38: once a section's command is issued its inputs are frozen: no step
\* changes the inviter's alias after the create-invitation command, the
\* invitee's alias or invitation URL after the accept-invitation command, or
\* the issuer's credential attribute values after the send-offer command.
C38_InputsFrozenAfterCommand ==
  [][/\ (variant \in InviterVariants /\ connectionStep \in InviterCommandIssued
           => connectionAlias' = connectionAlias)
     /\ (variant = "w3cHold" /\ connectionStep \in InviteeCommandIssued
           => /\ connectionAlias' = connectionAlias
              /\ invitationUrl' = invitationUrl)
     /\ (variant \in InviterVariants /\ issueStep \in IssuerCommandIssued
           => /\ issueAttribute1' = issueAttribute1
              /\ issueAttribute2' = issueAttribute2)]_vars

\* the invitee's command was sent with the alias and the URL the fields
\* still show, and the connection is being polled
C38_InviteeInputsKeptWhilePolling ==
  /\ variant = "w3cHold"
  /\ connectionStep = "WaitForConnectionActive"
  /\ connPoll.pc = "sleep"
  /\ Len(posts) = 1
  /\ posts[1].alias = connectionAlias
  /\ posts[1].invitationUrl = invitationUrl

\* the steps of a section in the order of its enum ExampleStep
InviterStepOrder ==
  <<"SetConnectionAlias", "CreateInvitation", "WaitForInvitationCreation",
    "AcceptInvitation", "Done">>
InviteeStepOrder ==
  <<"SetConnectionAlias", "SetInvitationUrl", "AcceptInvitation",
    "WaitForInvitationAcceptance", "WaitForConnectionActive", "Done">>
IssueStepOrder ==
  <<"StandbyUntilReadyToIssue", "SetCredentialData", "SendCredentialOffer",
    "WaitForSendCredentialOffer", "AcceptCredential", "Done">>
AcceptOfferStepOrder ==
  <<"StandbyUntilReadyToReceive", "WaitToReceiveCredentialOffer",
    "AcceptCredentialOffer", "WaitForAcceptCredentialOffer",
    "WaitToReceiveCredential", "Done">>

\* the step of a section goes from old to new without going back, if old is
\* a step after the section's command (those of rank issued and above)
ForwardFrom(order, issued, old, new) ==
  StateRank(order, old) >= issued => StateRank(order, new) >= StateRank(order, old)

\* C39: once a section's command is issued, its step only moves forward
\* along the order of its enum and Done stays Done: the connection step of
\* the inviter from WaitForInvitationCreation on and of the invitee from
\* WaitForInvitationAcceptance on, the issue step from
\* WaitForSendCredentialOffer on, and the holder's accept-offer step, which
\* has no editable steps, from the start.
C39_StepsOnlyMoveForward ==
  [][/\ (variant \in InviterVariants
           => /\ ForwardFrom(InviterStepOrder, 3, connectionStep, connectionStep')
              /\ ForwardFrom(IssueStepOrder, 4, issueStep, issueStep'))
     /\ (variant = "w3cHold"
           => /\ ForwardFrom(InviteeStepOrder, 4, connectionStep, connectionStep')
              /\ ForwardFrom(AcceptOfferStepOrder, 1, acceptOfferStep,
                             acceptOfferStep'))]_vars

\* the holder's accept-offer section has gone through all its steps, and the
\* flow goes on in the section after it
C39_HolderSectionDoneAndFlowGoesOn ==
  /\ variant = "w3cHold"
  /\ connectionStep = "Done"
  /\ acceptOfferStep = "Done"
  /\ presentStep = "WaitForSendProofPresentation"

\* the DIDs the wallet creates in a step
DidsCreated == wallet'.created \ wallet.created

\* C40: in a call of postW3cCredentialRequest the credential request is sent
\* only with a non-empty exchange id and after the wallet has created, in
\* this call, the holder DID the request carries; when the exchange id is
\* empty or no DID is created, no request is sent and the call fails, so that
\* no holder DID is returned; and a holder DID returned is the one of the
\* request sent.
C40_RequestOnlyAfterHolderDidCreated ==
  [][call'.fn = "postW3cCredentialRequest"
       /\ <<call, wallet, server>>' # <<call, wallet, server>>
       => /\ (call'.request.sent
                => /\ call'.credentialExchangeId # ""
                   /\ DidsCreated = {call'.request.holder_did}
                   /\ call'.request.holder_did \in HolderDids)
          /\ (call'.credentialExchangeId = "" \/ DidsCreated = {}
                => /\ ~call'.request.sent
                   /\ ~call'.response.ok
                   /\ wallet'.submitted = wallet.submitted)
          /\ (call'.credentialExchangeId = "" => DidsCreated = {})
          /\ (call'.response.ok
                => /\ call'.request.sent
                   /\ call'.response.holderDid = call'.request.holder_did)]_vars

\* a call with an exchange id in which the wallet's create-DID command
\* failed: nothing was created or submitted, and the call failed
C40_DidCreationFailed ==
  /\ call.fn = "postW3cCredentialRequest"
  /\ call.credentialExchangeId # ""
  /\ ~call.request.sent
  /\ ~call.response.ok
  /\ wallet = EmptyWallet

====
